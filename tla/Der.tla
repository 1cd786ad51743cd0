-------------------------------- MODULE Der --------------------------------
(***************************************************************************)
(* How crypto.py reads RSA keys out of DER, byte by byte.  A byte has      *)
(* Radix values, those from Half on have the high bit set; every reader    *)
(* returns a value of its own, NoLength, NoItem or NoInteger, where the    *)
(* code raises.  The code's offset into the data is the rest of the data.  *)
(***************************************************************************)
EXTENDS Integers, Sequences, SequencesExt

CONSTANTS
    Half    \* 128 in the code

(* The tags are bytes. *)
ASSUME DerAssumption == Half \in Nat /\ Half >= 4

Radix == 2 * Half
Bytes == 0..(Radix - 1)

Tag == [INTEGER |-> 2, BIT_STRING |-> 3, OCTET_STRING |-> 4, NULL |-> 5, OID |-> 6, SEQUENCE |-> 7]
RsaOid == <<1>>    \* 1.2.840.113549.1.1.1 in the code

NoLength == [length |-> -1, rest |-> <<>>]
NoItem == [tag |-> -1, value |-> <<>>, rest |-> <<>>]
NoInteger == -1

(* int.from_bytes(bytes, "big"), byte after byte *)
Number(bytes) ==
    LET upTo[i \in Nat] == IF i \in DOMAIN bytes THEN upTo[i - 1] * Radix + bytes[i] ELSE 0
    IN  upTo[Len(bytes)]

(* n without its last k bytes *)
Shifted(n, k) ==
    LET without[i \in Nat] == IF i = 0 THEN n ELSE without[i - 1] \div Radix
    IN  without[k]

(* How many bytes n has: (n.bit_length() + 7) // 8, and 1 of 0. *)
Size(n) == CHOOSE k \in 1..(n + 1) : Shifted(n, k) = 0 /\ \A j \in 1..(k - 1) : Shifted(n, j) # 0

(* Mutant: as few bytes as the number needs. *)
ToFewestBytes(n, size) == [i \in 1..Size(n) |-> Shifted(n, Size(n) - i) % Radix]

(* n.to_bytes(size, "big") *)
ToBytes(n, size) == [i \in 1..size |-> Shifted(n, size - i) % Radix]

From(data, i) == SubSeq(data, i, Len(data))

----------------------------------------------------------------------------
(* Mutant: the shortest long form is not one. *)
LongLengthBeyondHalf(size, data) ==
    IF size = 0 \/ size > Len(data) \/ data[1] = 0 \/ Number(SubSeq(data, 1, size)) <= Half
    THEN NoLength
    ELSE [length |-> Number(SubSeq(data, 1, size)), rest |-> From(data, size + 1)]

(* A length of so many bytes. *)
LongLength(size, data) ==
    IF size = 0 \/ size > Len(data) \/ data[1] = 0 \/ Number(SubSeq(data, 1, size)) < Half
    THEN NoLength
    ELSE [length |-> Number(SubSeq(data, 1, size)), rest |-> From(data, size + 1)]

(* _read_length *)
ReadLength(data) ==
    IF data = <<>> THEN NoLength
    ELSE IF data[1] < Half THEN [length |-> data[1], rest |-> Tail(data)]
    ELSE LongLength(data[1] - Half, Tail(data))

Item(tag, after) ==
    IF after = NoLength \/ after.length > Len(after.rest) THEN NoItem
    ELSE [tag |-> tag, value |-> SubSeq(after.rest, 1, after.length),
          rest |-> From(after.rest, after.length + 1)]

(* _read_tlv *)
ReadTlv(data) == IF data = <<>> THEN NoItem ELSE Item(data[1], ReadLength(Tail(data)))

(* A turn of the loop in _sequence_items; an error ends it. *)
Turn(loop) ==
    LET item == ReadTlv(loop.rest)
    IN  IF item = NoItem THEN [items |-> <<NoItem>>, rest |-> <<>>]
        ELSE [items |-> Append(loop.items, [tag |-> item.tag, value |-> item.value]),
              rest |-> item.rest]

(* _sequence_items: <<NoItem>> if there is an error anywhere. *)
SequenceItems(data) ==
    LET after[turns \in Nat] ==
            IF turns = 0 THEN [items |-> <<>>, rest |-> data]
            ELSE LET loop == after[turns - 1] IN IF loop.rest = <<>> THEN loop ELSE Turn(loop)
    IN  after[Len(data)].items

(* Mutant: a leading zero is always allowed. *)
ReadPaddedInteger(value) ==
    IF value = <<>> \/ value[1] >= Half THEN NoInteger ELSE Number(value)

(* _read_integer *)
ReadInteger(value) ==
    IF value = <<>> \/ value[1] >= Half \/ (Len(value) > 1 /\ value[1] = 0 /\ value[2] < Half)
    THEN NoInteger ELSE Number(value)

ItemsOf(outer) ==
    IF outer.tag # Tag.SEQUENCE \/ outer.rest # <<>> THEN <<NoItem>> ELSE SequenceItems(outer.value)

(* The items of the sequence that is all of the data. *)
WholeSequence(data) == ItemsOf(ReadTlv(data))

(* items[i] exists and has the tag. *)
HasTag(items, i, tag) == i <= Len(items) /\ items[i].tag = tag

(* _validate_rsa_algorithm *)
RsaAlgorithm(items) ==
    /\ HasTag(items, 1, Tag.OID) /\ items[1].value = RsaOid
    /\ HasTag(items, 2, Tag.NULL) /\ items[2].value = <<>>

(* subjectPublicKey, behind the number of its unused bits. *)
SubjectPublicKey(items) ==
    IF /\ Len(items) = 2
       /\ HasTag(items, 1, Tag.SEQUENCE) /\ RsaAlgorithm(SequenceItems(items[1].value))
       /\ HasTag(items, 2, Tag.BIT_STRING) /\ items[2].value # <<>> /\ items[2].value[1] = 0
    THEN Tail(items[2].value) ELSE <<>>

(* The items of the RSAPublicKey, inside a SubjectPublicKeyInfo or not. *)
PublicItems(form, der) ==
    WholeSequence(IF form = "PKCS#1" THEN der ELSE SubjectPublicKey(WholeSequence(der)))

(* privateKey, behind a version and the algorithm. *)
PrivateKeyInfo(items) ==
    IF /\ Len(items) = 3
       /\ HasTag(items, 1, Tag.INTEGER) /\ ReadInteger(items[1].value) = 0
       /\ HasTag(items, 2, Tag.SEQUENCE) /\ RsaAlgorithm(SequenceItems(items[2].value))
       /\ HasTag(items, 3, Tag.OCTET_STRING)
    THEN items[3].value ELSE <<>>

(* The items of the RSAPrivateKey, inside a PrivateKeyInfo or not. *)
PrivateItems(form, der) ==
    WholeSequence(IF form = "PKCS#1" THEN der ELSE PrivateKeyInfo(WholeSequence(der)))

----------------------------------------------------------------------------
(* What writes keys: lengths and integers as short as they can be. *)
Digits(n) == ToBytes(n, Size(n))

WriteLength(n) == IF n < Half THEN <<n>> ELSE <<Half + Size(n)>> \o Digits(n)

WriteTlv(tag, value) == <<tag>> \o WriteLength(Len(value)) \o value

SignedDigits(n) == IF Digits(n)[1] < Half THEN Digits(n) ELSE <<0>> \o Digits(n)

WriteInteger(n) == WriteTlv(Tag.INTEGER, SignedDigits(n))

WriteAlgorithm == WriteTlv(Tag.SEQUENCE, WriteTlv(Tag.OID, RsaOid) \o WriteTlv(Tag.NULL, <<>>))

WritePublic(form, modulus, exponent) ==
    LET key == WriteTlv(Tag.SEQUENCE, WriteInteger(modulus) \o WriteInteger(exponent))
    IN  IF form = "PKCS#1" THEN key
        ELSE WriteTlv(Tag.SEQUENCE, WriteAlgorithm \o WriteTlv(Tag.BIT_STRING, <<0>> \o key))

(* The primes and what else follows the exponents is not read. *)
WritePrivate(form, modulus, exponent, privateExponent, prime) ==
    LET key == WriteTlv(Tag.SEQUENCE,
                   WriteInteger(0) \o WriteInteger(modulus) \o WriteInteger(exponent)
                       \o WriteInteger(privateExponent) \o WriteInteger(prime))
    IN  IF form = "PKCS#1" THEN key
        ELSE WriteTlv(Tag.SEQUENCE,
                 WriteInteger(0) \o WriteAlgorithm \o WriteTlv(Tag.OCTET_STRING, key))
============================================================================
