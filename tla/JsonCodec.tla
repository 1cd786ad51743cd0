----------------------------- MODULE JsonCodec -----------------------------
(***************************************************************************)
(* The conversions of whole values: to_wire and _encode (transport.py) on  *)
(* the way out, decode_value (codec.py) on the way in.  The code's         *)
(* functions call themselves; here each depth has its operator, since the  *)
(* models' fields are scalars and lists of scalars.  Left out are the      *)
(* targets that no model has a field of (enums, floats, bools and          *)
(* dictionaries), and the one field that is a list of models               *)
(* (CardOpenStatusWebhook.list), which no endpoint takes or gives.         *)
(***************************************************************************)
EXTENDS Models, FiniteSets, SequencesExt

AnyType == Plain("Any")

(* The key of a field: to_wire and decode_value derive it from the name,   *)
(* each in its own way, to the same effect for the names models.py has.    *)
Key(field) == <<"key", field>>

(* Of the items of a list, or of an object, the first error is the error. *)
AllOf(s) ==
    IF \E i \in DOMAIN s : Raised(s[i])
    THEN s[CHOOSE i \in DOMAIN s : Raised(s[i]) /\ \A j \in 1..(i - 1) : ~Raised(s[j])]
    ELSE List(s)

EveryOf(f, built) ==
    IF \E k \in DOMAIN f : Raised(f[k]) THEN f[CHOOSE k \in DOMAIN f : Raised(f[k])] ELSE built

----------------------------------------------------------------------------
(* _without_none *)
WithoutNone(type) == IF Is(type, "optional") THEN type.optional ELSE type

(* Mutant: the items of a list are not known for Longs. *)
ItemTypeUnknown(type) == AnyType

(* The annotation of a list's items. *)
ItemType(type) ==
    IF Is(WithoutNone(type), "listOf") THEN WithoutNone(type).listOf ELSE AnyType

(* The fields of a model that are sent. *)
SentFields(v) == {f \in DOMAIN v.model \ Ignored(v.class) : v.model[f] # None}

(* to_wire, of an item of a list. *)
ItemToWire(v, type, forSignature) ==
    IF v = None THEN None
    ELSE IF WithoutNone(type) = Long THEN SerializeLong(v, forSignature)
    ELSE CASE Is(v, "datetime") -> Str("datetime", v.datetime)
           [] Is(v, "midnight") -> Str("midnight", v.midnight)
           [] Is(v, "date") -> Str("date", v.date)
           [] Is(v, "float") -> Raise("ValueError")
           [] OTHER -> v

(* Of the value of a field. *)
FieldToWire(v, type, forSignature) ==
    IF Is(v, "list") /\ WithoutNone(type) # Long
    THEN AllOf([i \in DOMAIN v.list |-> ItemToWire(v.list[i], ItemType(type), forSignature)])
    ELSE ItemToWire(v, type, forSignature)

(* Of a request. *)
ToWire(v, forSignature) ==
    LET wire == [k \in {Key(f) : f \in SentFields(v)} |->
                    LET f == CHOOSE f \in SentFields(v) : Key(f) = k
                    IN  FieldToWire(v.model[f], Class[v.class][f], forSignature)]
    IN  EveryOf(wire, Dict(wire))

(* A body, or the value of one of its keys, each scalar of it changed. *)
EachItem(v, Change(_)) ==
    IF Is(v, "list") THEN List([i \in DOMAIN v.list |-> Change(v.list[i])]) ELSE Change(v)

EachScalar(v, Change(_)) ==
    IF Is(v, "dict") THEN Dict([k \in DOMAIN v.dict |-> EachItem(v.dict[k], Change)])
    ELSE EachItem(v, Change)

(* What json.loads makes, elsewhere, of what _encode wrote: a Decimal      *)
(* without places is written as an integer is.                             *)
WithoutPlaces(v) == IF Is(v, "decimal") /\ v.places = 0 THEN Integer(v.decimal) ELSE v

Transmitted(v) == EachScalar(v, WithoutPlaces)

----------------------------------------------------------------------------
DecodeStr(v) == IF Is(v, "str") THEN v ELSE Raise("TypeError")

(* `X | None`: every option but None is tried, and the errors forgotten. *)
Either(v) == IF Raised(v) THEN Raise("ValueError") ELSE v

(* decode_value, for a target without parts. *)
DecodeScalar(v, type) ==
    CASE v = None -> None
      [] v # None /\ type = Long -> DecodeLong(v)
      [] v # None /\ type = Plain("Decimal") -> DecodeDecimal(v)
      [] v # None /\ type = Plain("datetime") -> DecodeDatetime(v)
      [] v # None /\ type = Plain("date") -> DecodeDate(v)
      [] v # None /\ type = Plain("int") -> DecodeIntegral(v)
      [] v # None /\ type = Plain("str") -> DecodeStr(v)

(* For a list's annotation, or such a target. *)
DecodeItems(v, type) ==
    IF v = None \/ ~Is(type, "listOf") THEN DecodeScalar(v, type)
    ELSE IF Is(v, "list") THEN AllOf([i \in DOMAIN v.list |-> DecodeScalar(v.list[i], type.listOf)])
    ELSE Raise("ValueError")

(* For a field's annotation. *)
DecodeField(v, type) == IF v = None THEN None ELSE Either(DecodeItems(v, type.optional))

(* For a model. *)
DecodeModel(v, class) ==
    IF v = None THEN None
    ELSE IF ~Is(v, "dict") THEN Raise("ValueError")
    ELSE LET fields == [f \in DOMAIN Class[class] |->
                            IF Key(f) \in DOMAIN v.dict
                            THEN DecodeField(v.dict[Key(f)], Class[class][f])
                            ELSE None]
         IN  EveryOf(fields, Model(class, fields))

(* For a list of models. *)
DecodeModels(v, class) ==
    IF v = None THEN None
    ELSE IF ~Is(v, "list") THEN Raise("ValueError")
    ELSE AllOf([i \in DOMAIN v.list |-> DecodeModel(v.list[i], class)])
============================================================================
