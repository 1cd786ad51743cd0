--------------------------- MODULE ArgumentShapes ---------------------------
(***************************************************************************)
(* The constructors of models.py that accept the positional arguments of   *)
(* earlier releases.  Fields were added in the middle of nine dataclasses, *)
(* so each __init__ guesses, from the number of arguments and the types of *)
(* some, whether the caller wrote the current shape or an earlier one.     *)
(* A caller writes a call, argument by argument, and the constructor reads *)
(* it.  An argument is its type; a field read from it is its position.     *)
(***************************************************************************)
EXTENDS Integers, Sequences, FiniteSets, SequencesExt

CONSTANTS
    MaxNones,       \* bound: the arguments of a call that are None
    MaxKeywords     \* bound: the keywords of a call

ASSUME CallAssumption == MaxNones \in Nat /\ MaxKeywords \in Nat

(* The fields of each class, in the order of the current shape. *)
Fields == [
    WalletTransactionRequest |->
        <<"page_no", "page_size", "type", "order_no", "create_time", "member_card_id">>,
    CreateSharedAccountRequest |->
        <<"card_bin_id", "card_pool_id", "recharge_amount", "account_name">>,
    SharedAccountResponse |->
        <<"member_shared_account_id", "account_name", "status", "create_time", "card_bin",
          "card_bin_id", "card_pool_id", "pool_name", "card_organization", "balance",
          "issued_card_count", "remaining_apply_card_count", "can_recharge", "can_apply",
          "apply_handling_fee", "can_reduce", "can_freeze", "can_unfreeze", "can_cancel">>,
    CardBinsRequest |->
        <<"page_no", "page_size", "card_pool_id", "card_type", "card_organization",
          "card_bin", "area_code">>,
    CardBinResponse |->
        <<"card_bin_id", "card_pool_id", "pool_name", "card_type", "currency_code",
          "area_code", "card_bin", "card_organization", "applicable_scenarios",
          "custom_cardholder", "can_limit">>,
    IssueCardRequest |->
        <<"apply_count", "card_bin_id", "card_group_id", "card_name", "card_type",
          "member_shared_account_id", "daily_limit", "month_limit", "recharge_amount",
          "card_holder_id">>,
    CardLimitUpdateRequest |->
        <<"member_card_id", "card_type", "daily_limit", "month_limit", "total_limit">>,
    RechargeCardOperationRecordRequest |->
        <<"page_no", "page_size", "member_card_operation_record_id", "member_card_id">>,
    RechargeCardTransferStatusWebhook |->
        <<"member_card_operation_record_id", "member_card_id", "card_type",
          "operation_type", "amount", "currency_code", "balance", "total_limit",
          "daily_limit", "month_limit", "status", "message", "update_time">>]

Class == DOMAIN Fields

(* legacy_names: the oldest shape of each class. *)
LegacyNames == [
    WalletTransactionRequest |->
        <<"page_no", "page_size", "type", "create_time", "member_card_id">>,
    CreateSharedAccountRequest |-> <<"card_bin_id", "recharge_amount", "account_name">>,
    SharedAccountResponse |->
        <<"member_shared_account_id", "account_name", "status", "create_time", "card_bin",
          "card_bin_id", "card_organization", "balance", "issued_card_count",
          "remaining_apply_card_count", "can_recharge", "can_apply", "apply_handling_fee",
          "can_reduce", "can_freeze", "can_unfreeze", "can_cancel">>,
    CardBinsRequest |->
        <<"page_no", "page_size", "card_type", "card_organization", "card_bin", "area_code">>,
    CardBinResponse |->
        <<"card_bin_id", "card_type", "currency_code", "area_code", "card_bin",
          "card_organization", "applicable_scenarios", "custom_cardholder", "can_limit">>,
    IssueCardRequest |->
        <<"apply_count", "card_bin_id", "card_group_id", "card_name", "card_type",
          "member_shared_account_id", "month_limit", "recharge_amount">>,
    CardLimitUpdateRequest |-> <<"member_card_id", "total_limit">>,
    RechargeCardOperationRecordRequest |-> <<"member_card_operation_record_id">>,
    RechargeCardTransferStatusWebhook |->
        <<"member_card_operation_record_id", "member_card_id", "card_type",
          "operation_type", "amount", "currency_code", "balance", "status", "message",
          "update_time">>]

(* The shape between the oldest and the current one, of the classes that   *)
(* have one (total_limit_names).                                           *)
TotalLimitNames == [
    CardLimitUpdateRequest |-> <<"member_card_id", "daily_limit", "month_limit", "total_limit">>,
    RechargeCardTransferStatusWebhook |->
        <<"member_card_operation_record_id", "member_card_id", "card_type",
          "operation_type", "amount", "currency_code", "balance", "total_limit", "status",
          "message", "update_time">>]

Text == {"account_name", "status", "card_bin", "pool_name", "card_organization",
         "card_type", "area_code", "currency_code", "applicable_scenarios", "card_name",
         "operation_type", "message", "order_no"}
Decimal == {"recharge_amount", "balance", "apply_handling_fee", "daily_limit",
            "month_limit", "total_limit", "amount"}

(* The type the fields are annotated with. *)
Type(c, f) ==
    CASE f \in Text -> "text"
      [] f \in Decimal -> "decimal"
      [] f = "create_time" /\ c = "WalletTransactionRequest" -> "list"
      [] f = "update_time" \/ (f = "create_time" /\ c # "WalletTransactionRequest") -> "time"
      [] OTHER -> "integer"

ArgType == {"none", "text", "decimal", "list", "time", "integer"}
Number == {"integer", "decimal"}

Oldest(c) == LegacyNames[c]
Between(c) == IF c \in DOMAIN TotalLimitNames THEN TotalLimitNames[c] ELSE Oldest(c)
Shapes(c) == {Fields[c], Between(c), Oldest(c)}

----------------------------------------------------------------------------
VARIABLES
    class,      \* the class that is called
    args,       \* the types of the positional arguments written so far
    kwargs,     \* the names of the keyword arguments, none of which is None
    outcome,    \* "writing", "returned" or why the constructor raised
    values      \* the argument each field is read from: its position, Keyword or Default

vars == <<class, args, kwargs, outcome, values>>

Keyword == -1
Default == 0

Init ==
    /\ class \in Class
    /\ args = <<>>
    /\ kwargs = {}
    /\ outcome = "writing"
    /\ values = [f \in ToSet(Fields[class]) |-> Default]

(* An argument of the type a shape has for it, or None. *)
Fits(a, shape) ==
    /\ Len(a) <= Len(shape)
    /\ \A i \in DOMAIN a : a[i] \in {"none", Type(class, shape[i])}

WriteArgument(a) ==
    /\ outcome = "writing"
    /\ kwargs = {}
    /\ args' = Append(args, a)
    /\ \/ \E shape \in Shapes(class) : Fits(args', shape)
       \/ Len(args) = Len(Fields[class])
    /\ Cardinality({i \in DOMAIN args' : args'[i] = "none"}) <= MaxNones
    /\ UNCHANGED <<class, kwargs, outcome, values>>

WriteKeyword(k) ==
    /\ outcome = "writing"
    /\ Cardinality(kwargs) < MaxKeywords
    /\ kwargs' = kwargs \cup {k}
    /\ UNCHANGED <<class, args, outcome, values>>

----------------------------------------------------------------------------
(* Which shape a call of each class is read in.                            *)

(* isinstance(args[n], ...), None, and false when there is no such argument. *)
Is(n, types) == n \in DOMAIN args /\ args[n] \in types

Count == Len(args)

WalletTransactionIsOld ==
    ~ \/ Count >= 6
      \/ Is(4, {"text"})
      \/ Count = 5 /\ Is(5, {"list"})

SharedAccountRequestIsOld ==
    Count = 3 \/ (Count = 2 /\ Is(2, {"decimal", "none"}))

SharedAccountIsOld == Count \in 7..18 /\ Is(7, {"text", "none"})

(* Mutant: only the complete legacy call is recognized. *)
CardBinsIsOldIfComplete == Count = 6

CardBinsIsOld == Count = 6 \/ Is(3, {"text"})

CardBinIsOld == Count \in 2..10 /\ Is(2, {"text", "none"})

(* Mutant: the arguments are counted from 0. *)
IssueCardIsOldOffByOne == Count = 7 /\ kwargs = {}

IssueCardIsOld == Count = 8 /\ kwargs = {}

CardLimitIsOld == Count = 2 /\ kwargs = {}
CardLimitIsBetween == Count = 4 /\ kwargs = {}

OperationRecordIsOld == Count = 1 /\ kwargs = {}

TransferStatusIsCurrent ==
    \/ Count >= 12
    \/ /\ Count = 10
       /\ \A n \in 8..10 : Is(n, Number \cup {"none"})
       /\ \E n \in 8..10 : Is(n, Number)

TransferStatusIsBetween ==
    /\ ~TransferStatusIsCurrent
    /\ Count = 11 \/ (Count \in {8, 9} /\ Is(8, Number))

TransferStatusIsOld == ~TransferStatusIsCurrent /\ ~TransferStatusIsBetween

ReadAsOldest ==
    \/ class = "WalletTransactionRequest" /\ WalletTransactionIsOld
    \/ class = "CreateSharedAccountRequest" /\ SharedAccountRequestIsOld
    \/ class = "SharedAccountResponse" /\ SharedAccountIsOld
    \/ class = "CardBinsRequest" /\ CardBinsIsOld
    \/ class = "CardBinResponse" /\ CardBinIsOld
    \/ class = "IssueCardRequest" /\ IssueCardIsOld
    \/ class = "CardLimitUpdateRequest" /\ CardLimitIsOld
    \/ class = "RechargeCardOperationRecordRequest" /\ OperationRecordIsOld
    \/ class = "RechargeCardTransferStatusWebhook" /\ TransferStatusIsOld

ReadAsBetween ==
    \/ class = "CardLimitUpdateRequest" /\ CardLimitIsBetween
    \/ class = "RechargeCardTransferStatusWebhook" /\ TransferStatusIsBetween

(* positional_names *)
Positional ==
    IF ReadAsOldest THEN Oldest(class)
    ELSE IF ReadAsBetween THEN Between(class)
    ELSE Fields[class]

(* zip(positional_names, args) stops at the shorter. *)
Zipped == 1..(IF Count < Len(Positional) THEN Count ELSE Len(Positional))

(* Mutant: keywords are compared with the fields of the current shape. *)
GivenByCurrentShape ==
    {Fields[class][i] : i \in {n \in DOMAIN args : n <= Len(Fields[class])}}

(* positional_names[: len(args)] *)
Given == {Positional[i] : i \in Zipped}

Values ==
    [f \in ToSet(Fields[class]) |->
        IF f \in kwargs THEN Keyword
        ELSE IF \E i \in Zipped : Positional[i] = f
             THEN CHOOSE i \in Zipped : Positional[i] = f
             ELSE Default]

IsNone(v) == v = Default \/ (v > 0 /\ args[v] = "none")

(* The two constructors that demand one id of two. *)
IdMissing ==
    \/ /\ class = "CreateSharedAccountRequest"
       /\ IsNone(Values["card_bin_id"])
       /\ IsNone(Values["card_pool_id"])
    \/ /\ class = "RechargeCardOperationRecordRequest"
       /\ IsNone(Values["member_card_operation_record_id"])
       /\ IsNone(Values["member_card_id"])

TooMany == Count > Len(Fields[class])
(* Mutant: keywords are not looked at. *)
UnexpectedIgnored == FALSE

Unexpected == ~(kwargs \subseteq ToSet(Fields[class]))
Multiple == kwargs \cap Given # {}

Raise(why, when) ==
    /\ outcome = "writing"
    /\ when
    /\ outcome' = why
    /\ UNCHANGED <<class, args, kwargs, values>>

RaiseTooMany == Raise("too many", TooMany)
RaiseUnexpected == Raise("unexpected", ~TooMany /\ Unexpected)
RaiseMultiple == Raise("multiple", ~TooMany /\ ~Unexpected /\ Multiple)
RaiseMissing == Raise("missing", ~TooMany /\ ~Unexpected /\ ~Multiple /\ IdMissing)

Return ==
    /\ outcome = "writing"
    /\ ~TooMany /\ ~Unexpected /\ ~Multiple /\ ~IdMissing
    /\ outcome' = "returned"
    /\ values' = Values
    /\ UNCHANGED <<class, args, kwargs>>

Constructed == outcome # "writing" /\ UNCHANGED vars

Next ==
    \/ \E a \in ArgType : WriteArgument(a)
    \/ \E k \in ToSet(Fields[class]) \cup {"unknown"} : WriteKeyword(k)
    \/ RaiseTooMany
    \/ RaiseUnexpected
    \/ RaiseMultiple
    \/ RaiseMissing
    \/ Return
    \/ Constructed

Spec == Init /\ [][Next]_vars

----------------------------------------------------------------------------
(* Every variable has its type. *)
TypeOK ==
    /\ class \in Class
    /\ args \in Seq(ArgType)
    /\ kwargs \subseteq ToSet(Fields[class]) \cup {"unknown"}
    /\ outcome \in {"writing", "returned", "too many", "unexpected", "multiple", "missing"}
    /\ values \in [ToSet(Fields[class]) -> -1..Len(Fields[class])]
    /\ outcome = "returned" => kwargs \subseteq DOMAIN values

(* A call written in this shape, each argument of its field's type, which  *)
(* in every other shape it fits means the same.                            *)
Means(shape) ==
    /\ Fits(args, shape)
    /\ \A other \in Shapes(class) :
          Fits(args, other) =>
              \A i \in DOMAIN args : args[i] # "none" => other[i] = shape[i]

(* Each argument went to the field this shape has for it. *)
ReadIn(shape) ==
    \A i \in DOMAIN args : args[i] # "none" => values[shape[i]] = i

Returned == outcome = "returned" /\ kwargs = {}

(* Code written for an earlier release keeps working: a call in the oldest *)
(* positional shape that can mean nothing else is read in that shape,      *)
(* whatever number of trailing arguments it leaves out.                    *)
OldestShapeKept ==
    Returned /\ Means(Oldest(class)) => ReadIn(Oldest(class))

(* A call that gives every argument of a shape, old or new, is read in     *)
(* that shape, also when it could be the beginning of a call in another:   *)
(* eight arguments for IssueCardRequest, two or four for                   *)
(* CardLimitUpdateRequest and one for RechargeCardOperationRecordRequest   *)
(* fit a newer shape as well.                                              *)
CompleteCallsKept ==
    Returned =>
        \A shape \in Shapes(class) :
            Len(args) = Len(shape) /\ Fits(args, shape) => ReadIn(shape)

(* A keyword never replaces an argument given by position, in whichever    *)
(* shape it was read, and is turned down only for a field that has one:    *)
(* the fields an old shape lacks can be added to it by keyword.            *)
OneSourceEach ==
    /\ outcome = "returned" =>
          /\ \A k \in kwargs : values[k] = Keyword
          /\ \A i \in DOMAIN args :
                i <= Len(Positional) => \E f \in DOMAIN values : values[f] = i
    /\ outcome = "multiple" =>
          \E k \in kwargs, i \in DOMAIN args : i <= Len(Positional) /\ Positional[i] = k

(* "Create a request using either the pool-aware or legacy positional      *)
(* shape.", say the constructors of the classes that were given pools: a   *)
(* call in the one shape that does not fit the other is read in it.        *)
PoolAwareOrLegacy ==
    Returned /\ "card_pool_id" \in ToSet(Fields[class]) \ ToSet(Oldest(class)) =>
        \A shape \in Shapes(class) : Means(shape) => ReadIn(shape)
============================================================================
