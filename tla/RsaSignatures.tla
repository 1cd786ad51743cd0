--------------------------- MODULE RsaSignatures ---------------------------
(***************************************************************************)
(* crypto.py: keys are read from PEM files, which may have been damaged,   *)
(* contents are signed and signatures, which may be others than what was   *)
(* signed, verified.  The arithmetic is the code's, with few-byte moduli.  *)
(***************************************************************************)
EXTENDS Der, FiniteSets

CONSTANTS
    Pairs,          \* RSA key pairs [modulus, exponent, privateExponent, prime]
    Contents,
    Digest,         \* the digest of a content, as bytes, DigestInfo prefix included
    MinPadding      \* 8 in the code

ASSUME SignaturesAssumption ==
    /\ Contents # {}
    /\ DOMAIN Digest = Contents /\ \A c \in Contents : Digest[c] \in Seq(Bytes)
    /\ \A c, d \in Contents : c # d => Digest[c] # Digest[d] /\ Len(Digest[c]) = Len(Digest[d])
    /\ MinPadding \in Nat

(* pow(x, e, n) *)
Power(x, e, n) ==
    LET raised[k \in Nat] ==
            IF k = 0 THEN 1 % n
            ELSE LET half == raised[k \div 2]
                 IN  IF k % 2 = 0 THEN (half * half) % n ELSE (((half * half) % n) * x) % n
    IN  raised[e]

(* What makes two exponents a pair: each undoes the other. *)
ASSUME PairsAssumption ==
    \A p \in Pairs :
        /\ p.modulus \in Nat /\ p.modulus >= 2 /\ p.modulus % 2 = 1
        /\ p.exponent \in Nat /\ p.exponent > 1 /\ p.exponent % 2 = 1
        /\ p.privateExponent \in Nat \ {0} /\ p.prime \in Nat
        /\ \A m \in 0..(p.modulus - 1) :
              /\ Power(Power(m, p.exponent, p.modulus), p.privateExponent, p.modulus) = m
              /\ Power(Power(m, p.privateExponent, p.modulus), p.exponent, p.modulus) = m

Kinds == {"public", "private"}
Forms == {"PKCS#1", "wrapped"}

(* What the Base64 of a pair's undamaged file says. *)
FileOf(p, kind, form) ==
    IF kind = "public" THEN WritePublic(form, p.modulus, p.exponent)
    ELSE WritePrivate(form, p.modulus, p.exponent, p.privateExponent, p.prime)

(* Files have a length that DER can write, below 256^127 bytes in the code. *)
ASSUME FilesAssumption ==
    \A p \in Pairs, kind \in Kinds, form \in Forms : Size(Len(FileOf(p, kind, form))) < Half

VARIABLES
    pair,       \* the pair whose keys are written
    pem,        \* the file: its header, whether its footer is there, what the Base64 says
    stage,      \* "start", "written", "read", "signed", "verified"
    key,        \* what was read
    content,    \* what is signed or verified
    signature,  \* as bytes
    verdict     \* what verify returned

vars == <<pair, pem, stage, key, content, signature, verdict>>

NoKey(asked) == [kind |-> "ValueError", asked |-> asked]
PublicKey(n, e) == [kind |-> "public", modulus |-> n, exponent |-> e]
PrivateKey(n, d) == [kind |-> "private", modulus |-> n, exponent |-> d]

NoFile == [kind |-> "none", form |-> "none", footer |-> FALSE, der |-> <<>>]
NoSignature == <<>>
AnyContent == CHOOSE c \in Contents : TRUE

----------------------------------------------------------------------------
(* _validate_rsa_modulus, _validate_rsa_public_exponent; the private       *)
(* exponent need only be positive.                                         *)
ValidModulus(n) == n >= 2 /\ n % 2 = 1
ValidPublicExponent(e) == e > 1 /\ e % 2 = 1

(* The key of modulus and public exponent, if they are all there is. *)
PublicKeyOf(items) ==
    IF /\ Len(items) = 2 /\ HasTag(items, 1, Tag.INTEGER) /\ HasTag(items, 2, Tag.INTEGER)
       /\ ValidModulus(ReadInteger(items[1].value))
       /\ ValidPublicExponent(ReadInteger(items[2].value))
    THEN PublicKey(ReadInteger(items[1].value), ReadInteger(items[2].value))
    ELSE NoKey("public")

(* read_public_key *)
ReadPublicKey(file) ==
    IF file.kind = "public" /\ file.footer THEN PublicKeyOf(PublicItems(file.form, file.der))
    ELSE NoKey("public")

(* The key of version 0, modulus, public exponent and private exponent; of *)
(* the third nothing but its tag is read.                                  *)
PrivateKeyOf(items) ==
    IF /\ \A i \in 1..4 : HasTag(items, i, Tag.INTEGER)
       /\ ReadInteger(items[1].value) = 0
       /\ ValidModulus(ReadInteger(items[2].value))
       /\ ReadInteger(items[4].value) > 0
    THEN PrivateKey(ReadInteger(items[2].value), ReadInteger(items[4].value))
    ELSE NoKey("private")

(* read_private_key *)
ReadPrivateKey(file) ==
    IF file.kind = "private" /\ file.footer THEN PrivateKeyOf(PrivateItems(file.form, file.der))
    ELSE NoKey("private")

Padding(c, n) == Size(n) - Len(Digest[c]) - 3

(* EMSA-PKCS1-v1_5 *)
Encoded(c, n) ==
    <<0, 1>> \o [i \in 1..Padding(c, n) |-> Radix - 1] \o <<0>> \o Digest[c]

(* sign, of a key that read_private_key returned: NoSignature where it     *)
(* raises.                                                                 *)
SignatureOf(c, k) ==
    IF Padding(c, k.modulus) < MinPadding \/ Number(Encoded(c, k.modulus)) >= k.modulus
    THEN NoSignature
    ELSE ToBytes(Power(Number(Encoded(c, k.modulus)), k.exponent, k.modulus), Size(k.modulus))

(* Mutant: any bytes of the right length are a number to raise. *)
VerifiesUnreduced(c, bytes, k) ==
    /\ Len(bytes) = Size(k.modulus)
    /\ Padding(c, k.modulus) >= MinPadding
    /\ ToBytes(Power(Number(bytes) % k.modulus, k.exponent, k.modulus), Size(k.modulus))
        = Encoded(c, k.modulus)

(* Mutant: the padding must be longer than it need be. *)
VerifiesLongPadding(c, bytes, k) ==
    /\ Len(bytes) = Size(k.modulus)
    /\ Padding(c, k.modulus) > MinPadding
    /\ Number(bytes) < k.modulus
    /\ ToBytes(Power(Number(bytes), k.exponent, k.modulus), Size(k.modulus)) = Encoded(c, k.modulus)

(* verify, of a key that read_public_key returned *)
Verifies(c, bytes, k) ==
    /\ Len(bytes) = Size(k.modulus)
    /\ Padding(c, k.modulus) >= MinPadding
    /\ Number(bytes) < k.modulus
    /\ ToBytes(Power(Number(bytes), k.exponent, k.modulus), Size(k.modulus)) = Encoded(c, k.modulus)

----------------------------------------------------------------------------
Init ==
    /\ pair \in Pairs
    /\ stage = "start"
    /\ pem = NoFile /\ key = NoKey("none")
    /\ content = AnyContent /\ signature = NoSignature /\ verdict = FALSE

Written(kind, form) == FileOf(pair, kind, form)

(* One byte replaced, inserted or lost. *)
Damaged(der) ==
    {ReplaceAt(der, i, b) : i \in DOMAIN der, b \in Bytes}
    \cup {InsertAt(der, i, b) : i \in 1..(Len(der) + 1), b \in Bytes}
    \cup {RemoveAt(der, i) : i \in DOMAIN der}

Write ==
    /\ stage = "start"
    /\ \E kind \in Kinds, form \in Forms, footer \in BOOLEAN :
          \E der \in {Written(kind, form)} \cup Damaged(Written(kind, form)) :
             /\ footer \/ der = Written(kind, form)
             /\ pem' = [kind |-> kind, form |-> form, footer |-> footer, der |-> der]
    /\ stage' = "written"
    /\ UNCHANGED <<pair, key, content, signature, verdict>>

(* read_public_key or read_private_key, whichever kind the caller expects. *)
Read ==
    /\ stage = "written"
    /\ key' \in {ReadPublicKey(pem), ReadPrivateKey(pem)}
    /\ stage' = "read"
    /\ UNCHANGED <<pair, pem, content, signature, verdict>>

Sign(c) ==
    /\ stage = "read" /\ key.kind = "private"
    /\ content' = c
    /\ signature' = SignatureOf(c, key)
    /\ stage' = "signed"
    /\ UNCHANGED <<pair, pem, key, verdict>>

Verify(c, bytes) ==
    /\ stage = "read" /\ key.kind = "public"
    /\ content' = c
    /\ signature' = bytes
    /\ verdict' = Verifies(c, bytes, key)
    /\ stage' = "verified"
    /\ pem' = NoFile
    /\ UNCHANGED <<pair, key>>

Pristine == pem.footer /\ pem.der = Written(pem.kind, pem.form)

(* Undamaged keys sign, and verify every string of bytes of the right      *)
(* length and some of another.                                             *)
Candidates ==
    LET size == Size(pair.modulus)
    IN  [1..size -> Bytes] \cup {ToBytes(1, size + 1), NoSignature}

Next ==
    \/ Write
    \/ Read
    \/ Pristine /\ \E c \in Contents : Sign(c)
    \/ Pristine /\ \E c \in Contents, bytes \in Candidates : Verify(c, bytes)

Spec == Init /\ [][Next]_vars

----------------------------------------------------------------------------
(* The types, and that a signature has as many bytes as its modulus.       *)
TypeOK ==
    /\ pair \in Pairs
    /\ stage \in {"start", "written", "read", "signed", "verified"}
    /\ pem.der \in Seq(Bytes)
    /\ key.kind \in Kinds \cup {"ValueError"}
    /\ content \in Contents /\ verdict \in BOOLEAN
    /\ stage = "signed" => signature = NoSignature \/ Len(signature) = Size(key.modulus)

PairsPublic == PublicKey(pair.modulus, pair.exponent)
PairsPrivate == PrivateKey(pair.modulus, pair.privateExponent)

(* An undamaged file of either form is read, as the key that was written,  *)
(* whatever lengths its parts have (read_public_key, read_private_key).    *)
IntactKeysAreRead ==
    stage = "read" /\ Pristine =>
        key \in {PairsPublic, PairsPrivate, NoKey(IF pem.kind = "public" THEN "private" ELSE "public")}

IsPart(bytes, part) ==
    \E i \in 0..(Len(bytes) - Len(part)) : SubSeq(bytes, i + 1, i + Len(part)) = part

(* The bytes of a wrapped public key, when the items of its algorithm go   *)
(* on behind the parameters, as no reader minds.                           *)
AlgorithmThen(more) ==
    WriteTlv(Tag.SEQUENCE, WriteTlv(Tag.OID, RsaOid) \o (WriteTlv(Tag.NULL, <<>>) \o more))

WrappedPublic(n, e, more) ==
    WriteTlv(Tag.SEQUENCE,
        AlgorithmThen(more) \o WriteTlv(Tag.BIT_STRING, <<0>> \o WritePublic("PKCS#1", n, e)))

(* A damaged file is not read as another key than one it spells out: a     *)
(* bare public key's file is byte for byte what that key is written as, of *)
(* a wrapped one the algorithm alone may go on behind its parameters, and  *)
(* of a private key both numbers that are used stand in the file as they   *)
(* are written (_read_length and _read_integer insist on the shortest      *)
(* encoding, the readers on the end of the data).                          *)
KeysAreReadAsWritten ==
    stage = "read" =>
        /\ key.kind = "public" =>
              IF pem.form = "PKCS#1" THEN pem.der = WritePublic("PKCS#1", key.modulus, key.exponent)
              ELSE \E i \in 1..(Len(pem.der) + 1), j \in 0..Len(pem.der) :
                      pem.der = WrappedPublic(key.modulus, key.exponent, SubSeq(pem.der, i, j))
        /\ key.kind = "private" =>
              IsPart(pem.der, WriteInteger(key.modulus)) /\ IsPart(pem.der, WriteInteger(key.exponent))

(* What sign returns verifies with the pair's public key, and with no      *)
(* other content; it returns something for every modulus with room for the *)
(* padding.                                                                *)
SignaturesVerify ==
    stage = "signed" /\ Pristine =>
        IF Padding(content, key.modulus) < MinPadding THEN signature = NoSignature
        ELSE {c \in Contents : Verifies(c, signature, PairsPublic)} = {content}

(* Of all byte strings verify accepts one for a content, the one that sign *)
(* makes: not another that is the same number modulo the key's modulus.    *)
OneSignature ==
    stage = "verified" =>
        (verdict <=> signature # NoSignature /\ signature = SignatureOf(content, PairsPrivate))
============================================================================
