------------------------ MODULE ArgumentShapesProofs ------------------------
(***************************************************************************)
(* What ArgumentShapes promises, for calls of every length and any number  *)
(* of keywords: whatever shape the constructor guesses, no argument is     *)
(* lost or replaced, and calls in the oldest shape keep their meaning.     *)
(***************************************************************************)
EXTENDS ArgumentShapes, TLAPS

----------------------------------------------------------------------------
(* The tables of names.                                                    *)

(* No name twice. *)
Injective(s) == \A i, j \in DOMAIN s : s[i] = s[j] => i = j

(* A shape of class c: names of its fields, no more than there are. *)
IsShape(s, c) ==
    /\ DOMAIN s = 1..Len(s) /\ Len(s) \in Nat
    /\ Len(s) <= Len(Fields[c])
    /\ Injective(s)
    /\ \A i \in DOMAIN s : s[i] \in ToSet(Fields[c])

LEMMA Classes ==
    Class = {"WalletTransactionRequest", "CreateSharedAccountRequest", "SharedAccountResponse",
             "CardBinsRequest", "CardBinResponse", "IssueCardRequest", "CardLimitUpdateRequest",
             "RechargeCardOperationRecordRequest", "RechargeCardTransferStatusWebhook"}
BY DEF Class, Fields

LEMMA BetweenIs ==
    ASSUME NEW c \in Class
    PROVE  /\ c = "CardLimitUpdateRequest" \/ c = "RechargeCardTransferStatusWebhook"
              => Between(c) = TotalLimitNames[c]
           /\ c # "CardLimitUpdateRequest" /\ c # "RechargeCardTransferStatusWebhook"
              => Between(c) = Oldest(c)
BY DEF Between, TotalLimitNames

(* Each table entry is a shape of its class. *)
LEMMA ShapesOfClasses ==
    ASSUME NEW c \in Class, NEW s \in Shapes(c)
    PROVE  IsShape(s, c)
<1>1. CASE c = "WalletTransactionRequest"
  <2>1. IsShape(Fields[c], c)
    BY <1>1 DEF IsShape, Injective, ToSet, Fields
  <2>2. IsShape(Oldest(c), c)
    BY <1>1 DEF IsShape, Injective, ToSet, Oldest, Fields, LegacyNames
  <2> QED
    BY <1>1, <2>1, <2>2, BetweenIs DEF Shapes
<1>2. CASE c = "CreateSharedAccountRequest"
  <2>1. IsShape(Fields[c], c)
    BY <1>2 DEF IsShape, Injective, ToSet, Fields
  <2>2. IsShape(Oldest(c), c)
    BY <1>2 DEF IsShape, Injective, ToSet, Oldest, Fields, LegacyNames
  <2> QED
    BY <1>2, <2>1, <2>2, BetweenIs DEF Shapes
<1>3. CASE c = "SharedAccountResponse"
  <2>1. IsShape(Fields[c], c)
    BY <1>3 DEF IsShape, Injective, ToSet, Fields
  <2>2. IsShape(Oldest(c), c)
    BY <1>3 DEF IsShape, Injective, ToSet, Oldest, Fields, LegacyNames
  <2> QED
    BY <1>3, <2>1, <2>2, BetweenIs DEF Shapes
<1>4. CASE c = "CardBinsRequest"
  <2>1. IsShape(Fields[c], c)
    BY <1>4 DEF IsShape, Injective, ToSet, Fields
  <2>2. IsShape(Oldest(c), c)
    BY <1>4 DEF IsShape, Injective, ToSet, Oldest, Fields, LegacyNames
  <2> QED
    BY <1>4, <2>1, <2>2, BetweenIs DEF Shapes
<1>5. CASE c = "CardBinResponse"
  <2>1. IsShape(Fields[c], c)
    BY <1>5 DEF IsShape, Injective, ToSet, Fields
  <2>2. IsShape(Oldest(c), c)
    BY <1>5 DEF IsShape, Injective, ToSet, Oldest, Fields, LegacyNames
  <2> QED
    BY <1>5, <2>1, <2>2, BetweenIs DEF Shapes
<1>6. CASE c = "IssueCardRequest"
  <2>1. IsShape(Fields[c], c)
    BY <1>6 DEF IsShape, Injective, ToSet, Fields
  <2>2. IsShape(Oldest(c), c)
    BY <1>6 DEF IsShape, Injective, ToSet, Oldest, Fields, LegacyNames
  <2> QED
    BY <1>6, <2>1, <2>2, BetweenIs DEF Shapes
<1>7. CASE c = "CardLimitUpdateRequest"
  <2>1. IsShape(Fields[c], c)
    BY <1>7 DEF IsShape, Injective, ToSet, Fields
  <2>2. IsShape(Oldest(c), c)
    BY <1>7 DEF IsShape, Injective, ToSet, Oldest, Fields, LegacyNames
  <2>3. IsShape(TotalLimitNames[c], c)
    BY <1>7 DEF IsShape, Injective, ToSet, Fields, TotalLimitNames
  <2> QED
    BY <1>7, <2>1, <2>2, <2>3, BetweenIs DEF Shapes
<1>8. CASE c = "RechargeCardOperationRecordRequest"
  <2>1. IsShape(Fields[c], c)
    BY <1>8 DEF IsShape, Injective, ToSet, Fields
  <2>2. IsShape(Oldest(c), c)
    BY <1>8 DEF IsShape, Injective, ToSet, Oldest, Fields, LegacyNames
  <2> QED
    BY <1>8, <2>1, <2>2, BetweenIs DEF Shapes
<1>9. CASE c = "RechargeCardTransferStatusWebhook"
  <2>1. IsShape(Fields[c], c)
    BY <1>9 DEF IsShape, Injective, ToSet, Fields
  <2>2. IsShape(Oldest(c), c)
    BY <1>9 DEF IsShape, Injective, ToSet, Oldest, Fields, LegacyNames
  <2>3. IsShape(TotalLimitNames[c], c)
    BY <1>9 DEF IsShape, Injective, ToSet, Fields, TotalLimitNames
  <2> QED
    BY <1>9, <2>1, <2>2, <2>3, BetweenIs DEF Shapes
<1> QED
  BY Classes, <1>1, <1>2, <1>3, <1>4, <1>5, <1>6, <1>7, <1>8, <1>9

LEMMA PositionalIsShape ==
    ASSUME class \in Class
    PROVE  Positional \in Shapes(class) /\ IsShape(Positional, class)
BY ShapesOfClasses DEF Positional, Shapes

LEMMA FieldsAreShape ==
    ASSUME NEW c \in Class
    PROVE  IsShape(Fields[c], c)
BY ShapesOfClasses DEF Shapes

----------------------------------------------------------------------------
(* The arguments that are read, and where each goes. *)
LEMMA ZippedIs ==
    ASSUME class \in Class, args \in Seq(ArgType)
    PROVE  Zipped = {i \in DOMAIN args : i <= Len(Positional)} /\ Zipped \subseteq DOMAIN Positional
<1>1. IsShape(Positional, class)
  BY PositionalIsShape
<1>2. DOMAIN args = 1..Len(args) /\ Len(args) \in Nat
  OBVIOUS
<1> QED
  BY <1>1, <1>2 DEF Zipped, IsShape, Count

LEMMA ValuesAreTyped ==
    ASSUME class \in Class, args \in Seq(ArgType), ~TooMany
    PROVE  Values \in [ToSet(Fields[class]) -> -1..Len(Fields[class])]
<1>1. \A i \in Zipped : i \in -1..Len(Fields[class])
  <2>1. DOMAIN args = 1..Len(args) /\ Len(args) \in Nat
    OBVIOUS
  <2>2. Len(Fields[class]) \in Nat
    BY FieldsAreShape DEF IsShape
  <2> QED
    BY <2>1, <2>2, ZippedIs DEF TooMany, Count
<1>2. {Keyword, Default} \subseteq -1..Len(Fields[class])
  <2>1. Len(Fields[class]) \in Nat
    BY FieldsAreShape DEF IsShape
  <2> QED
    BY <2>1 DEF Keyword, Default
<1>3. ASSUME NEW f \in ToSet(Fields[class])
      PROVE  Values[f] \in -1..Len(Fields[class])
  <2>1. Values[f] = IF f \in kwargs THEN Keyword
                    ELSE IF \E i \in Zipped : Positional[i] = f
                         THEN CHOOSE i \in Zipped : Positional[i] = f
                         ELSE Default
    BY <1>3 DEF Values
  <2> QED
    BY <1>1, <1>2, <2>1
<1> QED
  BY <1>3 DEF Values

(* An argument that no keyword replaces is the value of its field. *)
LEMMA ArgumentsArrive ==
    ASSUME class \in Class, args \in Seq(ArgType), ~Multiple, NEW i \in Zipped
    PROVE  Positional[i] \in ToSet(Fields[class]) /\ Values[Positional[i]] = i
<1> DEFINE f == Positional[i]
<1>1. IsShape(Positional, class) /\ i \in DOMAIN Positional
  BY PositionalIsShape, ZippedIs
<1>2. f \in ToSet(Fields[class])
  BY <1>1 DEF IsShape
<1>3. f \notin kwargs
  BY DEF Multiple, Given
<1>4. \A j \in Zipped : Positional[j] = f => j = i
  BY <1>1, ZippedIs DEF IsShape, Injective
<1>5. (CHOOSE j \in Zipped : Positional[j] = f) = i
  BY <1>4
<1>6. Values[f] = CHOOSE j \in Zipped : Positional[j] = f
  BY <1>2, <1>3 DEF Values
<1> QED
  BY <1>2, <1>5, <1>6

----------------------------------------------------------------------------
(* Once the constructor has decided, nothing changes any more. *)
Decided ==
    /\ outcome = "returned" =>
          ~TooMany /\ ~Unexpected /\ ~Multiple /\ values = Values
    /\ outcome = "multiple" => Multiple

ShapesInv == TypeOK /\ Decided

LEMMA InitHolds == Init => ShapesInv
<1> SUFFICES ASSUME Init PROVE ShapesInv
  OBVIOUS
<1>1. class \in Class /\ args = <<>> /\ kwargs = {} /\ outcome = "writing"
      /\ values = [f \in ToSet(Fields[class]) |-> Default]
  BY DEF Init
<1>2. Len(Fields[class]) \in Nat
  BY <1>1, FieldsAreShape DEF IsShape
<1>3. values \in [ToSet(Fields[class]) -> -1..Len(Fields[class])]
  BY <1>1, <1>2 DEF Default
<1> QED
  BY <1>1, <1>3 DEF ShapesInv, TypeOK, Decided

(* Writing goes on until the constructor is called. *)
LEMMA WritingKeeps ==
    ASSUME ShapesInv, outcome = "writing", outcome' = "writing", UNCHANGED <<class, values>>,
           args' \in Seq(ArgType), kwargs' \subseteq ToSet(Fields[class]) \cup {"unknown"}
    PROVE  ShapesInv'
BY DEF ShapesInv, TypeOK, Decided

(* What is read depends on the call alone. *)
LEMMA ReadingKeeps ==
    ASSUME UNCHANGED <<class, args, kwargs>>
    PROVE  /\ TooMany' = TooMany /\ Unexpected' = Unexpected /\ Multiple' = Multiple
           /\ Values' = Values
<1>1. Positional' = Positional /\ Zipped' = Zipped
  BY DEF Zipped, Positional, ReadAsOldest, ReadAsBetween, Count, Is,
         WalletTransactionIsOld, SharedAccountRequestIsOld, SharedAccountIsOld, CardBinsIsOld,
         CardBinIsOld, IssueCardIsOld, CardLimitIsOld, CardLimitIsBetween, OperationRecordIsOld,
         TransferStatusIsOld, TransferStatusIsBetween, TransferStatusIsCurrent
<1> QED
  BY <1>1 DEF TooMany, Unexpected, Multiple, Given, Values, Count

(* Raising leaves the call as it is. *)
LEMMA RaisingKeeps ==
    ASSUME ShapesInv, NEW why \in {"too many", "unexpected", "multiple", "missing"},
           NEW when, Raise(why, when), why = "multiple" => Multiple
    PROVE  ShapesInv'
<1>1. outcome' = why /\ UNCHANGED <<class, args, kwargs, values>>
  BY DEF Raise
<1>2. TypeOK'
  BY <1>1 DEF ShapesInv, TypeOK
<1>3. Multiple' = Multiple
  BY <1>1, ReadingKeeps
<1> QED
  BY <1>1, <1>2, <1>3 DEF ShapesInv, Decided

LEMMA NextKeeps == ShapesInv /\ [Next]_vars => ShapesInv'
<1> SUFFICES ASSUME ShapesInv, [Next]_vars PROVE ShapesInv'
  OBVIOUS
<1>1. ASSUME NEW a \in ArgType, WriteArgument(a) PROVE ShapesInv'
  <2>1. /\ outcome = "writing" /\ args' = Append(args, a)
        /\ UNCHANGED <<class, kwargs, outcome, values>>
    BY <1>1 DEF WriteArgument
  <2>2. args' \in Seq(ArgType)
    BY <1>1, <2>1 DEF ShapesInv, TypeOK
  <2> QED
    BY <2>1, <2>2, WritingKeeps DEF ShapesInv, TypeOK
<1>2. ASSUME NEW k \in ToSet(Fields[class]) \cup {"unknown"}, WriteKeyword(k) PROVE ShapesInv'
  BY <1>2, WritingKeeps DEF WriteKeyword, ShapesInv, TypeOK
<1>3. CASE RaiseTooMany
  BY <1>3, RaisingKeeps DEF RaiseTooMany
<1>4. CASE RaiseUnexpected
  BY <1>4, RaisingKeeps DEF RaiseUnexpected
<1>5. CASE RaiseMultiple
  BY <1>5, RaisingKeeps DEF RaiseMultiple, Raise
<1>6. CASE RaiseMissing
  BY <1>6, RaisingKeeps DEF RaiseMissing
<1>7. CASE Return
  <2>1. /\ ~TooMany /\ ~Unexpected /\ ~Multiple /\ outcome' = "returned" /\ values' = Values
        /\ UNCHANGED <<class, args, kwargs>>
    BY <1>7 DEF Return
  <2>2. /\ TooMany' = TooMany /\ Unexpected' = Unexpected /\ Multiple' = Multiple
        /\ Values' = Values
    BY <2>1, ReadingKeeps
  <2>3. class \in Class /\ args \in Seq(ArgType) /\ kwargs \subseteq ToSet(Fields[class]) \cup {"unknown"}
    BY DEF ShapesInv, TypeOK
  <2>4. values' \in [ToSet(Fields[class]) -> -1..Len(Fields[class])]
    BY <2>1, <2>3, ValuesAreTyped
  <2>5. TypeOK'
    BY <2>1, <2>3, <2>4 DEF TypeOK, Unexpected
  <2> QED
    BY <2>1, <2>2, <2>5 DEF ShapesInv, Decided
<1>8. CASE Constructed \/ UNCHANGED vars
  <2>1. UNCHANGED <<class, args, kwargs, outcome, values>>
    BY <1>8 DEF Constructed, vars
  <2>2. /\ TooMany' = TooMany /\ Unexpected' = Unexpected /\ Multiple' = Multiple
        /\ Values' = Values
    BY <2>1, ReadingKeeps
  <2> QED
    BY <2>1, <2>2 DEF ShapesInv, TypeOK, Decided
<1> QED
  BY <1>1, <1>2, <1>3, <1>4, <1>5, <1>6, <1>7, <1>8 DEF Next

(* The bookkeeping of a call: every variable has its type, and what the    *)
(* constructor returned is what reading the call gives.                    *)
THEOREM ShapesInvariant == Spec => []ShapesInv
BY InitHolds, NextKeeps, PTL DEF Spec

(* Every variable has its type, whatever the number of arguments, of None  *)
(* among them and of keywords (the nine constructors of models.py).        *)
THEOREM CallsAreTyped == Spec => []TypeOK
<1>1. ShapesInv => TypeOK
  BY DEF ShapesInv
<1> QED
  BY <1>1, ShapesInvariant, PTL

(* A keyword never replaces an argument given by position, every argument  *)
(* that is read arrives at a field, and a keyword is turned down only for  *)
(* a field that has an argument (positional_names[: len(args)]).           *)
THEOREM OneSourceEachAlways == Spec => []OneSourceEach
<1>1. ShapesInv => OneSourceEach
  <2> SUFFICES ASSUME ShapesInv PROVE OneSourceEach
    OBVIOUS
  <2>1. class \in Class /\ args \in Seq(ArgType)
    BY DEF ShapesInv, TypeOK
  <2>2. ASSUME outcome = "returned"
        PROVE  /\ \A k \in kwargs : values[k] = Keyword
               /\ \A i \in DOMAIN args :
                     i <= Len(Positional) => \E f \in DOMAIN values : values[f] = i
    <3>1. ~Unexpected /\ ~Multiple /\ values = Values /\ DOMAIN values = ToSet(Fields[class])
      BY <2>2 DEF ShapesInv, TypeOK, Decided
    <3>2. \A k \in kwargs : values[k] = Keyword
      BY <3>1 DEF Values, Unexpected
    <3>3. ASSUME NEW i \in DOMAIN args, i <= Len(Positional)
          PROVE  \E f \in DOMAIN values : values[f] = i
      <4>1. i \in Zipped
        BY <2>1, <3>3, ZippedIs
      <4>2. Positional[i] \in ToSet(Fields[class]) /\ Values[Positional[i]] = i
        BY <2>1, <3>1, <4>1, ArgumentsArrive
      <4> QED
        BY <3>1, <4>2
    <3> QED
      BY <3>2, <3>3
  <2>3. ASSUME outcome = "multiple"
        PROVE  \E k \in kwargs, i \in DOMAIN args : i <= Len(Positional) /\ Positional[i] = k
    <3>1. Multiple
      BY <2>3 DEF ShapesInv, Decided
    <3>2. PICK k \in kwargs, i \in Zipped : Positional[i] = k
      BY <3>1 DEF Multiple, Given
    <3> QED
      BY <2>1, <3>2, ZippedIs
  <2> QED
    BY <2>2, <2>3 DEF OneSourceEach
<1> QED
  BY <1>1, ShapesInvariant, PTL

----------------------------------------------------------------------------
(* A call is read in the shape the constructor guessed. *)
LEMMA ReadAsGuessed ==
    ASSUME class \in Class, args \in Seq(ArgType), ~Multiple, values = Values,
           Len(args) <= Len(Positional)
    PROVE  ReadIn(Positional)
<1>1. \A i \in DOMAIN args : i \in Zipped
  <2>1. DOMAIN args = 1..Len(args) /\ Len(args) \in Nat /\ Len(Positional) \in Nat
    BY PositionalIsShape DEF IsShape
  <2> QED
    BY <2>1, ZippedIs
<1>2. \A i \in Zipped : Values[Positional[i]] = i
  BY ArgumentsArrive
<1> QED
  BY <1>1, <1>2 DEF ReadIn

(* The types of a legacy call's deciding arguments; with them, a call that *)
(* is not read as legacy is short enough, or typed so, that its arguments  *)
(* are the current shape's as well.                                        *)
LikeOldest ==
    \/ Fits(args, Fields[class])
    \/ \A i \in DOMAIN args : Fields[class][i] = Oldest(class)[i]

LEMMA WalletLikeOldest ==
    ASSUME class = "WalletTransactionRequest", args \in Seq(ArgType), Fits(args, Oldest(class))
    PROVE  ReadAsOldest
<1>1. /\ Len(Oldest(class)) = 5
      /\ Type(class, Oldest(class)[4]) = "list" /\ Type(class, Oldest(class)[5]) = "integer"
  BY DEF Oldest, LegacyNames, Type, Text, Decimal
<1>2. Len(args) \in Nat /\ DOMAIN args = 1..Len(args)
  OBVIOUS
<1>3. Count \in Nat /\ Count <= 5
  BY <1>1, <1>2 DEF Fits, Count
<1>4. 4 \in DOMAIN args => args[4] # "text"
  BY <1>1 DEF Fits
<1>5. 5 \in DOMAIN args => args[5] # "list"
  BY <1>1 DEF Fits
<1> QED
  BY <1>3, <1>4, <1>5 DEF ReadAsOldest, WalletTransactionIsOld, Is

LEMMA SharedAccountRequestLikeOldest ==
    ASSUME class = "CreateSharedAccountRequest", args \in Seq(ArgType), Fits(args, Oldest(class))
    PROVE  ReadAsOldest \/ LikeOldest
<1>1. /\ Len(Oldest(class)) = 3
      /\ Type(class, Oldest(class)[2]) = "decimal"
      /\ Oldest(class)[1] = Fields[class][1]
  BY DEF Oldest, LegacyNames, Type, Text, Decimal, Fields
<1>2. Len(args) \in Nat /\ DOMAIN args = 1..Len(args)
  OBVIOUS
<1>3. Count \in Nat /\ Count <= 3
  BY <1>1, <1>2 DEF Fits, Count
<1>4. 2 \in DOMAIN args => args[2] \in {"decimal", "none"}
  BY <1>1 DEF Fits
<1>5. CASE Count <= 1
  BY <1>1, <1>2, <1>3, <1>5 DEF LikeOldest, Count
<1>6. CASE Count = 2
  BY <1>2, <1>4, <1>6 DEF ReadAsOldest, SharedAccountRequestIsOld, Is, Count
<1>7. CASE Count = 3
  BY <1>7 DEF ReadAsOldest, SharedAccountRequestIsOld
<1> QED
  BY <1>3, <1>5, <1>6, <1>7

LEMMA SharedAccountLikeOldest ==
    ASSUME class = "SharedAccountResponse", args \in Seq(ArgType), Fits(args, Oldest(class))
    PROVE  ReadAsOldest \/ LikeOldest
<1>1. /\ Len(Oldest(class)) = 17
      /\ Type(class, Oldest(class)[7]) = "text"
      /\ \A i \in 1..6 : Oldest(class)[i] = Fields[class][i]
  BY DEF Oldest, LegacyNames, Type, Text, Decimal, Fields
<1>2. Len(args) \in Nat /\ DOMAIN args = 1..Len(args)
  OBVIOUS
<1>3. Count \in Nat /\ Count <= 17
  BY <1>1, <1>2 DEF Fits, Count
<1>4. 7 \in DOMAIN args => args[7] \in {"text", "none"}
  BY <1>1 DEF Fits
<1>5. CASE Count <= 6
  BY <1>1, <1>2, <1>3, <1>5 DEF LikeOldest, Count
<1>6. CASE Count >= 7
  <2>1. Count \in 7..18
    BY <1>3, <1>6
  <2>2. 7 \in 1..Count
    BY <1>3, <1>6
  <2>3. 7 \in DOMAIN args
    BY <1>2, <2>2 DEF Count
  <2> QED
    BY <1>4, <2>1, <2>3 DEF ReadAsOldest, SharedAccountIsOld, Is
<1> QED
  BY <1>3, <1>5, <1>6

LEMMA CardBinLikeOldest ==
    ASSUME class = "CardBinResponse", args \in Seq(ArgType), Fits(args, Oldest(class))
    PROVE  ReadAsOldest \/ LikeOldest
<1>1. /\ Len(Oldest(class)) = 9
      /\ Type(class, Oldest(class)[2]) = "text"
      /\ Oldest(class)[1] = Fields[class][1]
  BY DEF Oldest, LegacyNames, Type, Text, Decimal, Fields
<1>2. Len(args) \in Nat /\ DOMAIN args = 1..Len(args)
  OBVIOUS
<1>3. Count \in Nat /\ Count <= 9
  BY <1>1, <1>2 DEF Fits, Count
<1>4. 2 \in DOMAIN args => args[2] \in {"text", "none"}
  BY <1>1 DEF Fits
<1>5. CASE Count <= 1
  BY <1>1, <1>2, <1>3, <1>5 DEF LikeOldest, Count
<1>6. CASE Count \in 2..9
  BY <1>2, <1>4, <1>6 DEF ReadAsOldest, CardBinIsOld, Is, Count
<1> QED
  BY <1>3, <1>5, <1>6

LEMMA CardBinsLikeOldest ==
    ASSUME class = "CardBinsRequest", args \in Seq(ArgType), Fits(args, Oldest(class))
    PROVE  ReadAsOldest \/ LikeOldest
<1>1. /\ Len(Oldest(class)) = 6 /\ Len(Fields[class]) = 7
      /\ \A i \in 1..2 : Oldest(class)[i] = Fields[class][i]
      /\ \A i \in 3..6 : Type(class, Oldest(class)[i]) = "text"
      /\ \A i \in 4..7 : Type(class, Fields[class][i]) = "text"
  BY DEF Oldest, LegacyNames, Type, Text, Decimal, Fields
<1>2. Len(args) \in Nat /\ DOMAIN args = 1..Len(args)
  OBVIOUS
<1>3. Count \in Nat /\ Count <= 6
  BY <1>1, <1>2 DEF Fits, Count
<1>4. \A i \in DOMAIN args : args[i] \in {"none", Type(class, Oldest(class)[i])}
  BY DEF Fits
<1>5. SUFFICES ASSUME Count <= 5, ~Is(3, {"text"})
               PROVE  Fits(args, Fields[class])
  BY <1>3 DEF ReadAsOldest, CardBinsIsOld, LikeOldest
<1>6. ASSUME NEW i \in DOMAIN args PROVE args[i] \in {"none", Type(class, Fields[class][i])}
  <2>1. i \in 1..5
    BY <1>2, <1>5, <1>6 DEF Count
  <2>2. CASE i \in 1..2
    BY <1>1, <1>4, <2>2
  <2>3. CASE i = 3
    BY <1>1, <1>4, <1>5, <2>3 DEF Is
  <2>4. CASE i \in 4..5
    BY <1>1, <1>4, <2>4
  <2> QED
    BY <2>1, <2>2, <2>3, <2>4
<1> QED
  BY <1>1, <1>2, <1>5, <1>6 DEF Fits, Count

LEMMA IssueCardLikeOldest ==
    ASSUME class = "IssueCardRequest", args \in Seq(ArgType), kwargs = {}, Fits(args, Oldest(class))
    PROVE  ReadAsOldest \/ LikeOldest
<1>1. /\ Len(Oldest(class)) = 8 /\ Len(Fields[class]) = 10
      /\ \A i \in 1..6 : Oldest(class)[i] = Fields[class][i]
      /\ Type(class, Oldest(class)[7]) = "decimal" /\ Type(class, Fields[class][7]) = "decimal"
  BY DEF Oldest, LegacyNames, Type, Text, Decimal, Fields
<1>2. Len(args) \in Nat /\ DOMAIN args = 1..Len(args)
  OBVIOUS
<1>3. Count \in Nat /\ Count <= 8
  BY <1>1, <1>2 DEF Fits, Count
<1>4. \A i \in DOMAIN args : args[i] \in {"none", Type(class, Oldest(class)[i])}
  BY DEF Fits
<1>5. SUFFICES ASSUME Count <= 7
               PROVE  Fits(args, Fields[class])
  BY <1>3 DEF ReadAsOldest, IssueCardIsOld, LikeOldest
<1>6. ASSUME NEW i \in DOMAIN args PROVE args[i] \in {"none", Type(class, Fields[class][i])}
  <2>1. i \in 1..6 \/ i = 7
    BY <1>2, <1>5, <1>6 DEF Count
  <2> QED
    BY <1>1, <1>4, <2>1
<1> QED
  BY <1>1, <1>2, <1>5, <1>6 DEF Fits, Count

LEMMA LimitsAndRecordsLikeOldest ==
    ASSUME class \in {"CardLimitUpdateRequest", "RechargeCardOperationRecordRequest"},
           args \in Seq(ArgType), kwargs = {}, Fits(args, Oldest(class))
    PROVE  (ReadAsOldest \/ LikeOldest) /\ ~ReadAsBetween
<1>1. /\ class = "CardLimitUpdateRequest" =>
            Len(Oldest(class)) = 2 /\ Oldest(class)[1] = Fields[class][1]
      /\ class = "RechargeCardOperationRecordRequest" => Len(Oldest(class)) = 1
  BY DEF Oldest, LegacyNames, Fields
<1>2. Len(args) \in Nat /\ DOMAIN args = 1..Len(args)
  OBVIOUS
<1>3. CASE class = "CardLimitUpdateRequest"
  <2>1. Count \in Nat /\ Count <= 2
    BY <1>1, <1>2, <1>3 DEF Fits, Count
  <2>2. CASE Count = 2
    BY <1>3, <2>2 DEF ReadAsOldest, CardLimitIsOld, ReadAsBetween, CardLimitIsBetween
  <2>3. CASE Count <= 1
    BY <1>1, <1>2, <1>3, <2>1, <2>3 DEF LikeOldest, Count, ReadAsBetween, CardLimitIsBetween
  <2> QED
    BY <2>1, <2>2, <2>3
<1>4. CASE class = "RechargeCardOperationRecordRequest"
  <2>1. Count \in Nat /\ Count <= 1
    BY <1>1, <1>2, <1>4 DEF Fits, Count
  <2>2. CASE Count = 1
    BY <1>4, <2>2 DEF ReadAsOldest, OperationRecordIsOld, ReadAsBetween
  <2>3. CASE Count = 0
    BY <1>2, <1>4, <2>3 DEF LikeOldest, Count, ReadAsBetween
  <2> QED
    BY <2>1, <2>2, <2>3
<1> QED
  BY <1>3, <1>4

LEMMA TransferStatusLikeOldest ==
    ASSUME class = "RechargeCardTransferStatusWebhook", args \in Seq(ArgType),
           Fits(args, Oldest(class))
    PROVE  ReadAsOldest
<1>1. /\ Len(Oldest(class)) = 10
      /\ Type(class, Oldest(class)[8]) = "text" /\ Type(class, Oldest(class)[9]) = "text"
      /\ Type(class, Oldest(class)[10]) = "time"
  BY DEF Oldest, LegacyNames, Type, Text, Decimal
<1>2. Len(args) \in Nat /\ DOMAIN args = 1..Len(args)
  OBVIOUS
<1>3. Count \in Nat /\ Count <= 10
  BY <1>1, <1>2 DEF Fits, Count
<1>4. \A n \in 8..10 : n \in DOMAIN args => args[n] \in {"none", "text", "time"}
  <2>1. \A n \in 8..10 : n = 8 \/ n = 9 \/ n = 10
    OBVIOUS
  <2> QED
    BY <1>1, <2>1 DEF Fits
<1>5. \A n \in 8..10 : ~Is(n, Number)
  BY <1>4 DEF Is, Number
<1>6. ~TransferStatusIsCurrent
  BY <1>3, <1>5 DEF TransferStatusIsCurrent
<1>7. ~TransferStatusIsBetween
  BY <1>3, <1>5 DEF TransferStatusIsBetween
<1> QED
  BY <1>6, <1>7 DEF ReadAsOldest, TransferStatusIsOld

(* A call that fits the oldest shape is read in it, or its arguments may   *)
(* as well be the current shape's, in which it is read then.               *)
LEMMA OldestOrLikeIt ==
    ASSUME class \in Class, args \in Seq(ArgType), kwargs = {}, Fits(args, Oldest(class))
    PROVE  ReadAsOldest \/ (LikeOldest /\ Positional = Fields[class])
<1>1. ReadAsOldest \/ LikeOldest
  BY Classes, WalletLikeOldest, SharedAccountRequestLikeOldest, SharedAccountLikeOldest,
     CardBinsLikeOldest, CardBinLikeOldest, IssueCardLikeOldest, LimitsAndRecordsLikeOldest,
     TransferStatusLikeOldest
<1>2. ~ReadAsOldest => ~ReadAsBetween
  BY TransferStatusLikeOldest, LimitsAndRecordsLikeOldest DEF ReadAsBetween
<1> QED
  BY <1>1, <1>2 DEF Positional

(* Code written for an earlier release keeps working: a call in the oldest *)
(* positional shape that can mean nothing else is read in that shape,      *)
(* whatever number of trailing arguments it leaves out and however many of *)
(* the others are None.                                                    *)
THEOREM OldestShapeKeptAlways == Spec => []OldestShapeKept
<1>1. ShapesInv => OldestShapeKept
  <2> SUFFICES ASSUME ShapesInv, Returned, Means(Oldest(class))
               PROVE  ReadIn(Oldest(class))
    BY DEF OldestShapeKept
  <2>1. /\ class \in Class /\ args \in Seq(ArgType) /\ kwargs = {}
        /\ ~Multiple /\ values = Values
    BY DEF Returned, ShapesInv, TypeOK, Decided
  <2>2. Fits(args, Oldest(class)) /\ Len(args) <= Len(Oldest(class))
    BY DEF Means, Fits
  <2>3. CASE ReadAsOldest
    <3>1. Positional = Oldest(class)
      BY <2>3 DEF Positional
    <3> QED
      BY <2>1, <2>2, <3>1, ReadAsGuessed
  <2>4. CASE LikeOldest /\ Positional = Fields[class]
    <3>1. Len(args) <= Len(Positional)
      <4>1. Len(args) \in Nat /\ Len(Oldest(class)) \in Nat /\ Len(Fields[class]) \in Nat
            /\ Len(Oldest(class)) <= Len(Fields[class])
        BY <2>1, ShapesOfClasses DEF IsShape, Shapes
      <4> QED
        BY <2>2, <2>4, <4>1
    <3>2. ReadIn(Fields[class])
      BY <2>1, <2>4, <3>1, ReadAsGuessed
    <3>3. ASSUME NEW i \in DOMAIN args, args[i] # "none"
          PROVE  Fields[class][i] = Oldest(class)[i]
      <4>1. Fields[class] \in Shapes(class)
        BY DEF Shapes
      <4> QED
        BY <2>4, <3>3, <4>1 DEF LikeOldest, Means
    <3> QED
      BY <3>2, <3>3 DEF ReadIn
  <2> QED
    BY <2>1, <2>2, <2>3, <2>4, OldestOrLikeIt
<1> QED
  BY <1>1, ShapesInvariant, PTL

(* A complete call of the current shape is not taken for an earlier one. *)
LEMMA CompleteIsCurrent ==
    ASSUME class \in Class, args \in Seq(ArgType), Fits(args, Fields[class]),
           Len(args) = Len(Fields[class])
    PROVE  Positional = Fields[class]
<1>1. CASE class = "WalletTransactionRequest"
  <2>1. Count = 6
    BY <1>1 DEF Count, Fields
  <2> QED
    BY <1>1, <2>1 DEF Positional, ReadAsOldest, ReadAsBetween, WalletTransactionIsOld
<1>2. CASE class = "CreateSharedAccountRequest"
  <2>1. Count = 4
    BY <1>2 DEF Count, Fields
  <2> QED
    BY <1>2, <2>1 DEF Positional, ReadAsOldest, ReadAsBetween, SharedAccountRequestIsOld
<1>3. CASE class = "SharedAccountResponse"
  <2>1. Count = 19
    BY <1>3 DEF Count, Fields
  <2> QED
    BY <1>3, <2>1 DEF Positional, ReadAsOldest, ReadAsBetween, SharedAccountIsOld
<1>4. CASE class = "CardBinsRequest"
  <2>1. Count = 7 /\ Type(class, Fields[class][3]) = "integer"
    BY <1>4 DEF Count, Fields, Type, Text, Decimal
  <2>2. 3 \in DOMAIN args => args[3] \in {"none", "integer"}
    BY <2>1 DEF Fits
  <2> QED
    BY <1>4, <2>1, <2>2 DEF Positional, ReadAsOldest, ReadAsBetween, CardBinsIsOld, Is
<1>5. CASE class = "CardBinResponse"
  <2>1. Count = 11
    BY <1>5 DEF Count, Fields
  <2> QED
    BY <1>5, <2>1 DEF Positional, ReadAsOldest, ReadAsBetween, CardBinIsOld
<1>6. CASE class = "IssueCardRequest"
  <2>1. Count = 10
    BY <1>6 DEF Count, Fields
  <2> QED
    BY <1>6, <2>1 DEF Positional, ReadAsOldest, ReadAsBetween, IssueCardIsOld
<1>7. CASE class = "CardLimitUpdateRequest"
  <2>1. Count = 5
    BY <1>7 DEF Count, Fields
  <2> QED
    BY <1>7, <2>1 DEF Positional, ReadAsOldest, ReadAsBetween, CardLimitIsOld, CardLimitIsBetween
<1>8. CASE class = "RechargeCardOperationRecordRequest"
  <2>1. Count = 4
    BY <1>8 DEF Count, Fields
  <2> QED
    BY <1>8, <2>1 DEF Positional, ReadAsOldest, ReadAsBetween, OperationRecordIsOld
<1>9. CASE class = "RechargeCardTransferStatusWebhook"
  <2>1. Count = 13
    BY <1>9 DEF Count, Fields
  <2>2. TransferStatusIsCurrent
    BY <2>1 DEF TransferStatusIsCurrent
  <2> QED
    BY <1>9, <2>2 DEF Positional, ReadAsOldest, ReadAsBetween, TransferStatusIsOld,
                      TransferStatusIsBetween
<1> QED
  BY <1>1, <1>2, <1>3, <1>4, <1>5, <1>6, <1>7, <1>8, <1>9, Classes

(* Nor is one of the shape in between. *)
LEMMA CompleteIsBetween ==
    ASSUME class \in {"CardLimitUpdateRequest", "RechargeCardTransferStatusWebhook"},
           args \in Seq(ArgType), kwargs = {}, Len(args) = Len(Between(class))
    PROVE  Positional = Between(class)
<1>1. CASE class = "CardLimitUpdateRequest"
  <2>1. Count = 4
    BY <1>1 DEF Count, Between, TotalLimitNames
  <2> QED
    BY <1>1, <2>1 DEF Positional, ReadAsOldest, ReadAsBetween, CardLimitIsOld, CardLimitIsBetween
<1>2. CASE class = "RechargeCardTransferStatusWebhook"
  <2>1. Count = 11
    BY <1>2 DEF Count, Between, TotalLimitNames
  <2>2. ~TransferStatusIsCurrent /\ TransferStatusIsBetween
    BY <2>1 DEF TransferStatusIsCurrent, TransferStatusIsBetween
  <2> QED
    BY <1>2, <2>2 DEF Positional, ReadAsOldest, ReadAsBetween, TransferStatusIsOld
<1> QED
  BY <1>1, <1>2

(* Nor is one of the oldest shape taken for a later one. *)
LEMMA CompleteIsOldest ==
    ASSUME class \in Class, args \in Seq(ArgType), kwargs = {}, Fits(args, Oldest(class)),
           Len(args) = Len(Oldest(class))
    PROVE  ReadAsOldest
<1>1. CASE class = "WalletTransactionRequest"
  <2>1. /\ Count = 5
        /\ Type(class, Oldest(class)[4]) = "list"
        /\ Type(class, Oldest(class)[5]) = "integer"
    BY <1>1 DEF Count, Oldest, LegacyNames, Type, Text, Decimal
  <2>2. /\ 4 \in DOMAIN args => args[4] \in {"none", "list"}
        /\ 5 \in DOMAIN args => args[5] \in {"none", "integer"}
    BY <2>1 DEF Fits
  <2> QED
    BY <1>1, <2>1, <2>2 DEF ReadAsOldest, WalletTransactionIsOld, Is
<1>2. CASE class = "CreateSharedAccountRequest"
  <2>1. Count = 3
    BY <1>2 DEF Count, Oldest, LegacyNames
  <2> QED
    BY <1>2, <2>1 DEF ReadAsOldest, SharedAccountRequestIsOld
<1>3. CASE class = "SharedAccountResponse"
  <2>1. Count = 17 /\ Type(class, Oldest(class)[7]) = "text"
    BY <1>3 DEF Count, Oldest, LegacyNames, Type, Text, Decimal
  <2>2. DOMAIN args = 1..17
    BY <2>1 DEF Count
  <2> QED
    BY <1>3, <2>1, <2>2 DEF ReadAsOldest, SharedAccountIsOld, Is, Fits
<1>4. CASE class = "CardBinsRequest"
  <2>1. Count = 6
    BY <1>4 DEF Count, Oldest, LegacyNames
  <2> QED
    BY <1>4, <2>1 DEF ReadAsOldest, CardBinsIsOld
<1>5. CASE class = "CardBinResponse"
  <2>1. Count = 9 /\ Type(class, Oldest(class)[2]) = "text"
    BY <1>5 DEF Count, Oldest, LegacyNames, Type, Text, Decimal
  <2>2. DOMAIN args = 1..9
    BY <2>1 DEF Count
  <2> QED
    BY <1>5, <2>1, <2>2 DEF ReadAsOldest, CardBinIsOld, Is, Fits
<1>6. CASE class = "IssueCardRequest"
  <2>1. Count = 8
    BY <1>6 DEF Count, Oldest, LegacyNames
  <2> QED
    BY <1>6, <2>1 DEF ReadAsOldest, IssueCardIsOld
<1>7. CASE class = "CardLimitUpdateRequest"
  <2>1. Count = 2
    BY <1>7 DEF Count, Oldest, LegacyNames
  <2> QED
    BY <1>7, <2>1 DEF ReadAsOldest, CardLimitIsOld
<1>8. CASE class = "RechargeCardOperationRecordRequest"
  <2>1. Count = 1
    BY <1>8 DEF Count, Oldest, LegacyNames
  <2> QED
    BY <1>8, <2>1 DEF ReadAsOldest, OperationRecordIsOld
<1>9. CASE class = "RechargeCardTransferStatusWebhook"
  BY <1>9, TransferStatusLikeOldest
<1> QED
  BY <1>1, <1>2, <1>3, <1>4, <1>5, <1>6, <1>7, <1>8, <1>9, Classes

(* A call that gives every argument of a shape, old or new, is read in     *)
(* that shape, whatever else it could be the beginning of.                 *)
THEOREM CompleteCallsKeptAlways == Spec => []CompleteCallsKept
<1>1. ShapesInv => CompleteCallsKept
  <2> SUFFICES ASSUME ShapesInv, Returned,
                      NEW shape \in Shapes(class), Len(args) = Len(shape), Fits(args, shape)
               PROVE  ReadIn(shape)
    BY DEF CompleteCallsKept
  <2>1. /\ class \in Class /\ args \in Seq(ArgType) /\ kwargs = {}
        /\ ~Multiple /\ values = Values
    BY DEF Returned, ShapesInv, TypeOK, Decided
  <2>2. shape = Oldest(class) => Positional = shape
    BY <2>1, CompleteIsOldest DEF Positional
  <2>3. shape = Fields[class] => Positional = shape
    BY <2>1, CompleteIsCurrent
  <2>4. shape = Between(class) => Positional = shape
    BY <2>1, <2>2, BetweenIs, CompleteIsBetween
  <2>5. Positional = shape
    BY <2>2, <2>3, <2>4 DEF Shapes
  <2>6. Len(shape) \in Nat
    BY <2>1, ShapesOfClasses DEF IsShape
  <2> QED
    BY <2>1, <2>5, <2>6, ReadAsGuessed
<1> QED
  BY <1>1, ShapesInvariant, PTL
============================================================================
