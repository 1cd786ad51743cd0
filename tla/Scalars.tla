------------------------------ MODULE Scalars ------------------------------
(***************************************************************************)
(* The values that codec.py and transport.py convert, and the conversions  *)
(* of one of them: Java Longs, numbers, decimals, instants and dates.      *)
(* A value is what Python holds once json.loads has read a body, or what a *)
(* model's field holds: a record whose field names the type.               *)
(***************************************************************************)
EXTENDS Integers, Sequences

CONSTANTS
    MaxLong,        \* 2^63 - 1 in the code
    SafeBoundary,   \* 2^53 - 1 in the code
    MillisFrom,     \* an epoch number from here on is not in seconds: 10^11 in the code
    Thousand,       \* 1000 in the code
    FirstInstant,   \* the first datetime there is, that of year 1, in the finest unit
    LastInstant,    \* the last, that of year 9999
    Scales          \* 1, 2, 4, ...: a double is a whole number over one of them

(* The finest scale holds a tenth of the finest unit, and a whole number   *)
(* too great for a double to hold is a second beyond every datetime.       *)
ASSUME ScalarAssumption ==
    /\ MaxLong \in Nat \ {0} /\ SafeBoundary \in 0..MaxLong
    /\ MillisFrom \in Nat \ {0} /\ Thousand \in Nat \ {0}
    /\ FirstInstant \in Int /\ LastInstant \in Int
    /\ FirstInstant <= 0 /\ 0 <= LastInstant
    /\ -FirstInstant < (SafeBoundary + 1) * (Thousand * Thousand)
    /\ LastInstant < (SafeBoundary + 1) * (Thousand * Thousand)
    /\ Scales \subseteq Nat \ {0} /\ 1 \in Scales
    /\ \E q \in Scales : q >= (SafeBoundary + 1) * (5 * (Thousand * Thousand))

None == [none |-> TRUE]
Integer(n) == [int |-> n]
Decimal(n, places) == [decimal |-> n, places |-> places]    \* n / 10^places, places 0 or 1
NotANumber == [float |-> "nan"]    \* json.loads reads NaN, and no other float
Bool(b) == [bool |-> b]
Datetime(n) == [datetime |-> n]    \* in the finest unit
Midnight(d) == [midnight |-> d]    \* the datetime a date alone is read as
Date(d) == [date |-> d]            \* year * 10000 + month * 100 + day
List(s) == [list |-> s]
Dict(f) == [dict |-> f]
Model(class, f) == [class |-> class, model |-> f]

(* A string, by what it spells: an integer as str(n) writes it, "-0", one  *)
(* in other digits than ASCII, one with a plus sign, a leading zero or a   *)
(* blank, a number with one decimal, a datetime, a date, the datetime at    *)
(* the beginning of one, or anything else.                                 *)
Str(spells, n) == [str |-> spells, n |-> n]

Spellings == {"integer", "minus zero", "other digits", "loose", "real", "datetime", "date",
              "midnight", "words"}

Raise(error) == [raise |-> error]

Is(v, type) == type \in DOMAIN v
Raised(v) == Is(v, "raise")

(* Tenths of an int or a Decimal, which are exact. *)
Tenths(v) == IF Is(v, "int") THEN 10 * v.int
             ELSE IF v.places = 1 THEN v.decimal ELSE 10 * v.decimal

LongRange == (-MaxLong - 1)..MaxLong

----------------------------------------------------------------------------
(* Mutant: no range check. *)
SerializeAnyLong(v, forSignature) ==
    CASE ~Is(v, "int") -> Raise("TypeError")
      [] OTHER -> IF forSignature \/ (v.int > -SafeBoundary /\ v.int < SafeBoundary)
                  THEN v ELSE Str("integer", v.int)

(* _serialize_java_long.  A bool is an int in Python, and is refused. *)
SerializeLong(v, forSignature) ==
    CASE ~Is(v, "int") -> Raise("TypeError")
      [] Is(v, "int") /\ v.int \notin LongRange -> Raise("ValueError")
      [] OTHER -> IF forSignature \/ (v.int > -SafeBoundary /\ v.int < SafeBoundary)
                  THEN v ELSE Str("integer", v.int)

(* _decode_integral *)
DecodeIntegral(v) ==
    CASE Is(v, "int") -> v
      [] Is(v, "decimal") -> IF Tenths(v) % 10 = 0 THEN Integer(Tenths(v) \div 10)
                             ELSE Raise("ValueError")
      [] Is(v, "float") -> Raise("ValueError")
      [] OTHER -> Raise("TypeError")

(* An optional minus sign and digits without a leading zero; what \d and   *)
(* int() take for digits goes beyond ASCII.                                *)
SpellsLong == {"integer", "minus zero", "other digits"}

(* Mutant: the greatest Long is refused. *)
BelowMaxLong(v) ==
    IF Raised(v) \/ v.int \in LongRange \ {MaxLong} THEN v ELSE Raise("ValueError")

(* Mutant: any integer is a Long. *)
InAnyRange(v) == v

InLongRange(v) ==
    IF Raised(v) \/ v.int \in LongRange THEN v ELSE Raise("ValueError")

(* _decode_java_long *)
DecodeLong(v) ==
    IF ~Is(v, "str") THEN InLongRange(DecodeIntegral(v))
    ELSE IF v.str \in SpellsLong THEN InLongRange(Integer(v.n)) ELSE Raise("ValueError")

(* Decimal(str(value)), of whatever the value is. *)
DecodeDecimal(v) ==
    CASE Is(v, "bool") -> Raise("TypeError")
      [] Is(v, "int") -> Decimal(v.int, 0)
      [] Is(v, "decimal") -> v
      [] Is(v, "str") /\ v.str \in SpellsLong \cup {"loose"} -> Decimal(v.n, 0)
      [] Is(v, "str") /\ v.str = "real" -> Decimal(v.n, 1)
      [] OTHER -> Raise("ValueError")

Magnitude(n) == IF n < 0 THEN -n ELSE n

(* Mutant: microseconds begin where milliseconds should. *)
UnitConfused(tenths) ==
    IF Magnitude(tenths) >= 10 * MillisFrom THEN 1 ELSE Thousand * Thousand

(* How many of the finest unit (microseconds) the number counts in. *)
Unit(tenths) ==
    IF Magnitude(tenths) >= 10 * MillisFrom * Thousand THEN 1
    ELSE IF Magnitude(tenths) >= 10 * MillisFrom THEN Thousand
    ELSE Thousand * Thousand

(* The whole number nearest to a / b, the even one of two. *)
Nearest(a, b) ==
    LET below == a \div b
    IN  IF 2 * (a % b) > b \/ (2 * (a % b) = b /\ below % 2 = 1) THEN below + 1 ELSE below

(* float() of num / den: a whole number of as many digits as a double      *)
(* keeps, over the scale at which num / den has that many.                 *)
Filling(num, den) ==
    {q \in Scales : num = 0 \/ 2 * (q * Magnitude(num)) >= (SafeBoundary + 1) * den}
Scale(num, den) ==
    CHOOSE q \in Filling(num, den) : \A finer \in Filling(num, den) : q <= finer

(* Mutant: the fraction of a second is cut off. *)
EpochWholeSeconds(v) ==
    LET second == Thousand * Thousand
        at == ((Tenths(v) * Unit(Tenths(v))) \div (10 * second)) * second
    IN  IF Is(v, "float") THEN Raise("ValueError")
        ELSE IF at \in FirstInstant..LastInstant THEN Datetime(at) ELSE Raise("ValueError")

(* _decode_epoch_datetime: the seconds become a double, and that is        *)
(* rounded to the finest unit.                                             *)
EpochDatetime(v) ==
    IF Is(v, "float") THEN Raise("ValueError")
    ELSE LET second == Thousand * Thousand
             tenths == Tenths(v) * Unit(Tenths(v))
             scale == Scale(tenths, 10 * second)
             at == Nearest(Nearest(tenths * scale, 10 * second) * second, scale)
         IN  IF at \in FirstInstant..LastInstant THEN Datetime(at) ELSE Raise("ValueError")

DecodeDatetime(v) ==
    CASE Is(v, "int") \/ Is(v, "decimal") \/ Is(v, "float") -> EpochDatetime(v)
      [] Is(v, "str") /\ v.str = "datetime" -> Datetime(v.n)
      [] Is(v, "str") /\ v.str \in {"date", "midnight"} -> Midnight(v.n)
      [] Is(v, "str") /\ v.str \notin {"datetime", "date", "midnight"} -> Raise("ValueError")
      [] OTHER -> Raise("TypeError")

DaysInMonth(y, m) ==
    CASE m \in {4, 6, 9, 11} -> 30
      [] m = 2 -> IF y % 4 = 0 /\ (y % 100 # 0 \/ y % 400 = 0) THEN 29 ELSE 28
      [] OTHER -> 31

IsDate(y, m, d) == y \in 1..9999 /\ m \in 1..12 /\ d \in 1..DaysInMonth(y, m)

(* _decode_date: an array of year, month and day, or a string. *)
DecodeDate(v) ==
    IF Is(v, "list")
    THEN IF Len(v.list) # 3 \/ \E i \in DOMAIN v.list : Raised(DecodeIntegral(v.list[i]))
         THEN Raise("ValueError")
         ELSE LET part(i) == DecodeIntegral(v.list[i]).int
              IN  IF IsDate(part(1), part(2), part(3))
                  THEN Date(part(1) * 10000 + part(2) * 100 + part(3))
                  ELSE Raise("ValueError")
    ELSE IF Is(v, "str")
    THEN IF v.str = "date" THEN Date(v.n) ELSE Raise("ValueError")
    ELSE Raise("TypeError")
============================================================================
