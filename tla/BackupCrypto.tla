---------------------------- MODULE BackupCrypto ----------------------------
(***************************************************************************)
(* The encrypted artifact: src/backupCrypto.js.  The dump goes through the *)
(* encrypting stream, is stored, may be damaged or cut, and goes through   *)
(* the decrypting stream of a restore, a verification or a rotation, both  *)
(* times in chunks that fall as they like.                                 *)
(*                                                                         *)
(* A byte is what it depends on: one of the header knows its place in its  *)
(* part, one of the ciphertext the key, the IV, its place and the byte     *)
(* that was encrypted.  This stands for AES-256-GCM and PBKDF2, which are  *)
(* Node's: a tag fits only the key, the IV and the very bytes it is of.    *)
(***************************************************************************)
EXTENDS Integers, Sequences

CONSTANTS
    PlainBytes,     \* what a byte of a dump can be
    Plain,          \* what can be dumped: sequences of bytes
    Passphrases,
    SaltLength, IvLength, TagLength    \* 16, 12 and 16

ASSUME CryptoAssumption ==
    /\ Plain \subseteq Seq(PlainBytes)
    /\ SaltLength \in Nat \ {0} /\ IvLength \in Nat \ {0} /\ TagLength \in Nat \ {0}

VARIABLES
    plain, source,      \* the dump, and what of it is still to be read
    passphrase, given,  \* of the job, and of whoever decrypts
    ciphertextChunks,   \* createEncryptStream: its chunks, joined
    artifact, unread,   \* what is stored, and what of it is still to be read
    headerBuffer, decipher, decryptedChunks,   \* createDecryptStream
    damaged,            \* history: the artifact is not what was written
    phase, out          \* what the decrypting stream has pushed

vars == <<plain, source, passphrase, given, ciphertextChunks, artifact, unread,
          headerBuffer, decipher, decryptedChunks, damaged, phase, out>>

writeVars == <<plain, source, passphrase, ciphertextChunks>>

\* HEADER_LENGTH
HeaderLength == 1 + SaltLength + IvLength + TagLength

----------------------------------------------------------------------------
(* What the library computes. *)

Byte(kind, of, at) == [kind |-> kind, of |-> of, at |-> at]

Noise == Byte("noise", <<>>, 0)

Version == <<Byte("version", <<>>, 1)>>
Salt    == [i \in 1..SaltLength |-> Byte("salt", <<>>, i)]
Iv      == [i \in 1..IvLength |-> Byte("iv", <<>>, i)]

\* deriveKey
Key(pass, salt) == <<pass, salt>>

Encrypted(key, iv, at, byte) == Byte("cipher", <<key, iv, byte>>, at)

\* Anything but the byte encrypted at this place decrypts to noise.
Decrypted(key, iv, at, byte) ==
    IF byte.kind = "cipher" /\ byte.at = at /\ byte.of[1] = key /\ byte.of[2] = iv
    THEN byte.of[3] ELSE Noise

TagOf(key, iv, bytes) ==
    [i \in 1..TagLength |-> Byte("tag", <<key, iv, bytes>>, i)]

First(s, n) == SubSeq(s, 1, n)
After(s, n)  == SubSeq(s, n + 1, Len(s))

----------------------------------------------------------------------------
(* The encrypting stream. *)

\* cipher.update: the place goes on from the chunks before.
Encrypts(chunk) ==
    [i \in 1..Len(chunk) |->
        Encrypted(Key(passphrase, Salt), Iv, Len(ciphertextChunks) + i, chunk[i])]

EncryptChunk ==
    /\ phase = "encrypt"
    /\ \E n \in 1..Len(source) :
          /\ ciphertextChunks' = ciphertextChunks \o Encrypts(First(source, n))
          /\ source' = After(source, n)
    /\ UNCHANGED <<plain, passphrase, given, artifact, unread, headerBuffer,
                   decipher, decryptedChunks, damaged, phase, out>>

Header(ciphertext) ==
    Version \o Salt \o Iv \o TagOf(Key(passphrase, Salt), Iv, ciphertext)

\* flush: the header, with the tag, goes out before what was kept back.
EncryptFlush ==
    /\ phase = "encrypt" /\ source = <<>>
    /\ artifact' = Header(ciphertextChunks) \o ciphertextChunks
    /\ phase' = "stored"
    /\ UNCHANGED <<writeVars, given, unread, headerBuffer, decipher,
                   decryptedChunks, damaged, out>>

----------------------------------------------------------------------------
(* Storage. *)

\* The artifact is cut, continued or changed in one place.
Damage ==
    /\ phase = "stored" /\ ~damaged
    /\ damaged' = TRUE
    /\ \/ \E n \in 0..(Len(artifact) - 1) : artifact' = First(artifact, n)
       \/ artifact' = Append(artifact, Noise)
       \/ \E i \in 1..Len(artifact) : artifact' = [artifact EXCEPT ![i] = Noise]
    /\ UNCHANGED <<writeVars, given, unread, headerBuffer, decipher,
                   decryptedChunks, phase, out>>

----------------------------------------------------------------------------
(* The decrypting stream. *)

\* createDecryptStream, with the passphrase of the job or another
Open ==
    /\ phase = "stored"
    /\ given' \in Passphrases
    /\ unread' = artifact
    /\ phase' = "decrypt"
    /\ UNCHANGED <<writeVars, artifact, headerBuffer, decipher, decryptedChunks,
                   damaged, out>>

\* null: the header is not complete
NoCipher == [key |-> <<>>, iv |-> <<>>, tag |-> <<>>, fed |-> <<>>]

\* The decipher of a complete header; the version is not looked at.
Parsed(buffer) ==
    [key |-> Key(given, SubSeq(buffer, 2, 1 + SaltLength)),
     iv  |-> SubSeq(buffer, 2 + SaltLength, 1 + SaltLength + IvLength),
     tag |-> SubSeq(buffer, 2 + SaltLength + IvLength, HeaderLength),
     fed |-> <<>>]

\* decipher.update, when there is anything to decrypt
Update(d, bytes) ==
    /\ decipher' = [d EXCEPT !.fed = @ \o bytes]
    /\ decryptedChunks' = decryptedChunks \o
           [i \in 1..Len(bytes) |-> Decrypted(d.key, d.iv, Len(d.fed) + i, bytes[i])]

\* Fault for the mutation runs: what follows the header in its chunk is lost.
ConsumeDropsRest(chunk) ==
    LET buffer == headerBuffer \o chunk IN
    /\ headerBuffer' = buffer
    /\ IF Len(buffer) < HeaderLength THEN UNCHANGED <<decipher, decryptedChunks>>
       ELSE Update(Parsed(buffer), <<>>)

\* Bytes are collected until the header is complete; those after it go on.
Consume(chunk) ==
    LET buffer == headerBuffer \o chunk IN
    /\ headerBuffer' = buffer
    /\ IF Len(buffer) < HeaderLength THEN UNCHANGED <<decipher, decryptedChunks>>
       ELSE Update(Parsed(buffer), After(buffer, HeaderLength))

DecryptChunk ==
    /\ phase = "decrypt"
    /\ \E n \in 1..Len(unread) :
          /\ unread' = After(unread, n)
          /\ IF decipher = NoCipher THEN Consume(First(unread, n))
             ELSE Update(decipher, First(unread, n)) /\ UNCHANGED headerBuffer
    /\ UNCHANGED <<writeVars, given, artifact, damaged, phase, out>>

\* Fault for the mutation runs: decrypted data goes out although the tag is wrong.
AuthenticAlways(d) == TRUE

\* decipher.final does not throw.
Authentic(d) == d.tag = TagOf(d.key, d.iv, d.fed)

\* flush: everything or nothing is pushed.
DecryptFlush ==
    /\ phase = "decrypt" /\ unread = <<>>
    /\ IF decipher # NoCipher /\ Authentic(decipher)
       THEN out' = decryptedChunks /\ phase' = "ok"
       ELSE phase' = "failed" /\ UNCHANGED out
    /\ UNCHANGED <<writeVars, given, artifact, unread, headerBuffer, decipher,
                   decryptedChunks, damaged>>

Init ==
    /\ plain \in Plain /\ source = plain
    /\ passphrase \in Passphrases /\ given = passphrase
    /\ ciphertextChunks = <<>>
    /\ artifact = <<>> /\ unread = <<>>
    /\ headerBuffer = <<>> /\ decipher = NoCipher /\ decryptedChunks = <<>>
    /\ damaged = FALSE
    /\ phase = "encrypt" /\ out = <<>>

Next == EncryptChunk \/ EncryptFlush \/ Damage \/ Open \/ DecryptChunk \/ DecryptFlush

Spec == Init /\ [][Next]_vars

----------------------------------------------------------------------------
(* Properties *)

\* Nothing but the dump comes out of the decrypting stream, however the
\* artifact was cut, continued or changed and the chunks fell: all or nothing.
OnlyTheDump == out # <<>> => phase = "ok" /\ out = plain

\* An intact artifact, opened with its passphrase, is always decrypted, an
\* empty dump's and one that comes byte by byte included.
IntactIsReadable ==
    phase \in {"ok", "failed"} /\ ~damaged /\ given = passphrase =>
        phase = "ok" /\ out = plain

\* A wrong passphrase and any damage but to the version byte are found out.
DamageIsFound ==
    phase = "ok" => given = passphrase /\ After(artifact, 1) =
        After(Header(ciphertextChunks) \o ciphertextChunks, 1)

----------------------------------------------------------------------------
(* The inductive invariant of BackupCryptoProofs *)

\* What is encrypted so far is the dump up to there, byte by byte.
WriteInv ==
    /\ phase \in {"encrypt", "stored", "decrypt", "ok", "failed"}
    /\ Len(ciphertextChunks) + Len(source) = Len(plain)
    /\ \A i \in 1..Len(ciphertextChunks) :
          ciphertextChunks[i] = Encrypted(Key(passphrase, Salt), Iv, i, plain[i])
    /\ \A i \in 1..Len(source) : source[i] = plain[Len(ciphertextChunks) + i]
    /\ phase # "encrypt" => source = <<>>

\* The first byte of the tag holds the key, the IV and all that was encrypted:
\* no damage makes another one of it.
TagAt == 2 + SaltLength + IvLength

StoreInv ==
    /\ phase = "encrypt" => artifact = <<>> /\ ~damaged
    /\ phase # "encrypt" /\ ~damaged =>
          artifact = Header(ciphertextChunks) \o ciphertextChunks
    /\ Len(artifact) >= HeaderLength =>
          artifact[TagAt] \in
              {TagOf(Key(passphrase, Salt), Iv, ciphertextChunks)[1], Noise}

\* The decrypting stream has seen the artifact up to what is unread.
StreamInv ==
    IF decipher = NoCipher
    THEN /\ headerBuffer \o unread = artifact /\ Len(headerBuffer) < HeaderLength
         /\ decryptedChunks = <<>>
    ELSE /\ Len(artifact) >= HeaderLength
         /\ decipher = [Parsed(artifact) EXCEPT !.fed = decipher.fed]
         /\ decipher.fed \o unread = After(artifact, HeaderLength)
         /\ Len(decryptedChunks) = Len(decipher.fed)
         /\ \A i \in 1..Len(decipher.fed) :
               decryptedChunks[i] =
                   Decrypted(decipher.key, decipher.iv, i, decipher.fed[i])

DecryptInv ==
    /\ phase \in {"encrypt", "stored"} =>
          /\ headerBuffer = <<>> /\ unread = <<>>
          /\ decipher = NoCipher /\ decryptedChunks = <<>>
    /\ phase \in {"decrypt", "ok", "failed"} => StreamInv
    /\ phase \in {"ok", "failed"} =>
          /\ unread = <<>>
          /\ (phase = "ok") <=> (decipher # NoCipher /\ Authentic(decipher))
    /\ out = IF phase = "ok" THEN decryptedChunks ELSE <<>>

CryptoInv == WriteInv /\ StoreInv /\ DecryptInv
=============================================================================
