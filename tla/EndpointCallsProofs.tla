------------------------ MODULE EndpointCallsProofs ------------------------
(***************************************************************************)
(* Proofs about EndpointCalls and the codec, for every size of a Long and  *)
(* of a double's range, whatever the callers give and the server answers.  *)
(*                                                                         *)
(* A value that is read says what its data say, and data of the right      *)
(* shape are read; a request that is written can be read, and says what    *)
(* was asked.  These are shown for a scalar, then for a field, a model, a  *)
(* list and a page.  CallInv joins them to the calls: it says what the     *)
(* argument, the body, what was signed and the result are at each stage.   *)
(***************************************************************************)
EXTENDS EndpointCalls, WellFoundedInduction, TLAPS

----------------------------------------------------------------------------
(* The tables: which annotations the classes have, and which classes the   *)
(* methods take and give.                                                  *)
(* The fields of a class have these annotations. *)
IsTyped(fields, kinds) == \A f \in DOMAIN fields : fields[f] \in {Optional(Annotation[a]) : a \in kinds}

IdentifiersAreLongs(fields) == \A f \in DOMAIN fields \cap Identifiers : fields[f] = Optional(Long)

LEMMA FieldsAre ==
    ASSUME NEW names, NEW kinds, DOMAIN names \subseteq kinds
    PROVE  /\ IsTyped(Fields(names), kinds)
           /\ (\A a \in DOMAIN names \ {"long"} : names[a] \cap Identifiers = {})
                => IdentifiersAreLongs(Fields(names))
<1>1. ASSUME NEW f \in DOMAIN Fields(names)
      PROVE  \E a \in DOMAIN names : f \in names[a] /\ Fields(names)[f] = Optional(Annotation[a])
  <2> DEFINE found == CHOOSE a \in DOMAIN names : f \in names[a]
  <2>1. found \in DOMAIN names /\ f \in names[found]
    BY DEF Fields
  <2>2. Fields(names)[f] = Optional(Annotation[found])
    BY DEF Fields
  <2> QED
    BY <2>1, <2>2
<1>2. Annotation["long"] = Long
  BY DEF Annotation
<1> QED
  BY <1>1, <1>2 DEF IsTyped, IdentifiersAreLongs

Requests == {
    "WalletInfoRequest", "RefreshTokenRequest", "WalletTransactionRequest", "CardPoolRequest",
    "CreateSharedAccountRequest", "SharedAccountPageRequest", "SharedAccountBalanceRequest",
    "SharedAccountCancelRequest", "SharedAccountGetRequest", "SharedAccountTransactionsRequest",
    "CardHolderCreateRequest", "CardHolderModifyRequest", "CardHolderPageRequest",
    "CardHolderCardPageRequest", "CardBinsRequest", "IssueCardRequest", "MemberCardPageRequest",
    "CardIdRequest", "CardTransactionsRequest", "CardLimitUpdateRequest",
    "MemberCardRechargeRequest", "MemberCardWithdrawRequest",
    "RechargeCardOperationRecordRequest", "IssueCardDetailsRequest", "CardGroupRequest",
    "CardGroupCreateRequest", "CardGroupUpdateRequest", "CardGroupDeleteRequest"}

Responses == {
    "WalletInfoResponse", "OAuth2Token", "WalletTransactionResponse", "CardPoolResponse",
    "SharedAccountIdResponse", "SharedAccountResponse", "SharedAccountTransactionIdResponse",
    "SharedAccountTransactionResponse", "CardHolderDetailResponse", "CardHolderPageResponse",
    "CardHolderCardResponse", "CardHolderCountryResponse", "CardBinResponse",
    "MemberCardResponse", "CardCvvResponse", "CardTransactionResponse", "CardLimitResponse",
    "RechargeCardOperationRecordResponse", "IssueCardDetailsResponse", "CardGroupResponse"}

LEMMA RequestsAreTyped ==
    ASSUME NEW c \in Requests
    PROVE  c \in ClassNames /\ IsTyped(Class[c], RequestKinds) /\ IdentifiersAreLongs(Class[c])
<1> DEFINE Good(fields) == IsTyped(fields, RequestKinds) /\ IdentifiersAreLongs(fields)
<1> USE DEF Paging, Identifiers, RequestKinds
<1>1. \A fields \in {WalletInfoRequest, RefreshTokenRequest, WalletTransactionRequest, CardPoolRequest,
    CreateSharedAccountRequest, SharedAccountPageRequest, SharedAccountBalanceRequest,
    SharedAccountCancelRequest, SharedAccountGetRequest, SharedAccountTransactionsRequest,
    CardHolderCreateRequest, CardHolderModifyRequest, CardHolderPageRequest,
    CardHolderCardPageRequest} : Good(fields)
  BY FieldsAre DEF WalletInfoRequest, RefreshTokenRequest, WalletTransactionRequest, CardPoolRequest,
    CreateSharedAccountRequest, SharedAccountPageRequest, SharedAccountBalanceRequest,
    SharedAccountCancelRequest, SharedAccountGetRequest, SharedAccountTransactionsRequest,
    CardHolderCreateRequest, CardHolderModifyRequest, CardHolderPageRequest,
    CardHolderCardPageRequest
<1>2. \A fields \in {CardBinsRequest, IssueCardRequest, MemberCardPageRequest,
    CardIdRequest, CardTransactionsRequest, CardLimitUpdateRequest,
    MemberCardRechargeRequest, MemberCardWithdrawRequest,
    RechargeCardOperationRecordRequest, IssueCardDetailsRequest, CardGroupRequest,
    CardGroupCreateRequest, CardGroupUpdateRequest, CardGroupDeleteRequest} : Good(fields)
  BY FieldsAre DEF CardBinsRequest, IssueCardRequest, MemberCardPageRequest,
    CardIdRequest, CardTransactionsRequest, CardLimitUpdateRequest,
    MemberCardRechargeRequest, MemberCardWithdrawRequest,
    RechargeCardOperationRecordRequest, IssueCardDetailsRequest, CardGroupRequest,
    CardGroupCreateRequest, CardGroupUpdateRequest, CardGroupDeleteRequest
<1> HIDE DEF Good, Paging, Identifiers, RequestKinds
<1>3. c \in ClassNames /\ Good(Class[c])
  BY <1>1, <1>2 DEF Requests, Class, ClassNames
<1> QED
  BY <1>3 DEF Good

LEMMA ResponsesAreTyped ==
    ASSUME NEW c \in Responses
    PROVE  /\ c \in ClassNames /\ IsTyped(Class[c], ResponseKinds)
           /\ c # "SharedAccountTransactionIdResponse" => IdentifiersAreLongs(Class[c])
<1> DEFINE Good(fields) == IsTyped(fields, ResponseKinds) /\ IdentifiersAreLongs(fields)
<1> USE DEF Identifiers, ResponseKinds
<1>1. \A fields \in {WalletInfoResponse, OAuth2Token, WalletTransactionResponse, CardPoolResponse,
    SharedAccountIdResponse, SharedAccountResponse,
    SharedAccountTransactionResponse, CardHolderDetailResponse, CardHolderPageResponse} : Good(fields)
  BY FieldsAre DEF WalletInfoResponse, OAuth2Token, WalletTransactionResponse, CardPoolResponse,
    SharedAccountIdResponse, SharedAccountResponse,
    SharedAccountTransactionResponse, CardHolderDetailResponse, CardHolderPageResponse
<1>2. \A fields \in {CardHolderCardResponse, CardHolderCountryResponse, CardBinResponse,
    MemberCardResponse, CardCvvResponse, CardTransactionResponse, CardLimitResponse,
    RechargeCardOperationRecordResponse, IssueCardDetailsResponse, CardGroupResponse} : Good(fields)
  BY FieldsAre DEF CardHolderCardResponse, CardHolderCountryResponse, CardBinResponse,
    MemberCardResponse, CardCvvResponse, CardTransactionResponse, CardLimitResponse,
    RechargeCardOperationRecordResponse, IssueCardDetailsResponse, CardGroupResponse
<1>3. IsTyped(SharedAccountTransactionIdResponse, ResponseKinds)
  BY FieldsAre DEF SharedAccountTransactionIdResponse
<1> HIDE DEF Good, Identifiers, ResponseKinds
<1>4. \/ c \in ClassNames /\ Good(Class[c])
      \/ /\ c \in ClassNames /\ c = "SharedAccountTransactionIdResponse"
         /\ Class[c] = SharedAccountTransactionIdResponse
  BY <1>1, <1>2 DEF Responses, Class, ClassNames
<1> QED
  BY <1>3, <1>4 DEF Good

Shaped == {"model", "page", "pageEx", "list", "first"}

(* What a method takes and makes of its data. *)
IsMethod(e) ==
    /\ e.takes \in Requests \cup {"nothing", "strings", "identifier"}
    /\ e.gives \in Shaped \cup {"long", "bool", "None"}
    /\ e.gives \in Shaped => e.class \in Responses

LEMMA TakesIs ==
    ASSUME NEW what \in Requests \cup {"nothing", "strings", "identifier"},
           NEW gives \in Shaped \cup {"long", "bool", "None"}, NEW class,
           gives \in Shaped => class \in Responses
    PROVE  IsMethod(Takes(what, gives, class))
BY DEF Takes, IsMethod

LEMMA EndpointsAreTyped == ASSUME NEW m \in DOMAIN Endpoint PROVE IsMethod(Endpoint[m])
<1> DEFINE Good(api) == \A n \in DOMAIN api : IsMethod(api[n])
<1> USE DEF Requests, Responses, Shaped
<1>1. Good(AuthApi) /\ Good(AccountsApi) /\ Good(TransactionsApi) /\ Good(CardPoolsApi)
  BY TakesIs DEF AuthApi, AccountsApi, TransactionsApi, CardPoolsApi
<1>2. Good(SharedAccountsApi)
  BY TakesIs DEF SharedAccountsApi
<1>3. Good(CardsApi)
  BY TakesIs DEF CardsApi
<1>4. Good(CardHoldersApi) /\ Good(CardGroupsApi)
  BY TakesIs DEF CardHoldersApi, CardGroupsApi
<1> HIDE DEF Requests, Responses, Shaped
<1>5. \E api \in Apis : m \in DOMAIN api /\ Endpoint[m] = api[m]
  <2> DEFINE found == CHOOSE api \in Apis : m \in DOMAIN api
  <2>1. found \in Apis /\ m \in DOMAIN found
    BY DEF Endpoint
  <2>2. Endpoint[m] = found[m]
    BY DEF Endpoint
  <2> QED
    BY <2>1, <2>2
<1> QED
  BY <1>1, <1>2, <1>3, <1>4, <1>5 DEF Apis

----------------------------------------------------------------------------
(* The kinds of value exclude one another.                                 *)
LEMMA NoneIs == DOMAIN None = {"none"}
BY DEF None

LEMMA DictIs == ASSUME NEW f PROVE DOMAIN Dict(f) = {"dict"} /\ Dict(f).dict = f
BY DEF Dict

LEMMA NoBodyIs == DOMAIN NoBody = {"nobody"}
BY DEF NoBody

(* Of the fields of an object an error is the error. *)
LEMMA EveryOfEither ==
    ASSUME NEW f, NEW built
    PROVE  \/ EveryOf(f, built) = built /\ \A k \in DOMAIN f : ~Raised(f[k])
           \/ \E k \in DOMAIN f : Raised(f[k]) /\ EveryOf(f, built) = f[k]
<1>1. CASE \E k \in DOMAIN f : Raised(f[k])
  <2> DEFINE first == CHOOSE k \in DOMAIN f : Raised(f[k])
  <2>1. first \in DOMAIN f /\ Raised(f[first])
    BY <1>1
  <2> QED
    BY <1>1, <2>1 DEF EveryOf
<1>2. CASE ~\E k \in DOMAIN f : Raised(f[k])
  BY <1>2 DEF EveryOf
<1> QED
  BY <1>1, <1>2

LEMMA EveryOfIs ==
    ASSUME NEW f, NEW built, ~Raised(EveryOf(f, built))
    PROVE  EveryOf(f, built) = built /\ \A k \in DOMAIN f : ~Raised(f[k])
BY EveryOfEither

LEMMA HasLogout == "logout" \in DOMAIN Endpoint
<1>1. "logout" \in DOMAIN AuthApi
  BY DEF AuthApi
<1>2. AuthApi \in Apis
  BY DEF Apis
<1> QED
  BY <1>1, <1>2 DEF Endpoint

LEMMA JsonKinds ==
    ASSUME NEW v \in JsonValue
    PROVE  \/ v = None \/ v = NotANumber
           \/ DOMAIN v = {"int"} /\ v.int \in Int /\ v = Integer(v.int)
           \/ DOMAIN v = {"decimal", "places"} /\ v.decimal \in Int /\ v.places \in {0, 1}
           \/ DOMAIN v = {"bool"}
           \/ DOMAIN v = {"str", "n"} /\ v.n \in Int /\ v = Str(v.str, v.n)
           \/ DOMAIN v = {"dict"}
           \/ DOMAIN v = {"list"} /\ v.list \in Seq(JsonFlat)
<1>1. CASE v \in [int : Int]
  BY <1>1 DEF Integer
<1>2. CASE v \in [decimal : Int, places : {0, 1}]
  BY <1>2
<1>3. CASE v \in [bool : BOOLEAN]
  BY <1>3
<1>4. CASE v \in [str : Spellings, n : Int]
  BY <1>4 DEF Str
<1>5. CASE v \in [list : Seq(JsonFlat)]
  BY <1>5
<1>6. CASE v = Dict(<<>>)
  BY <1>6 DEF Dict
<1> QED
  BY <1>1, <1>2, <1>3, <1>4, <1>5, <1>6 DEF JsonValue, JsonFlat, JsonScalar, Numbers

LEMMA IntegerIs == ASSUME NEW n PROVE DOMAIN Integer(n) = {"int"} /\ Integer(n).int = n
BY DEF Integer

LEMMA SpelledIs ==
    ASSUME NEW spells, NEW n
    PROVE  /\ DOMAIN Str(spells, n) = {"str", "n"}
           /\ Str(spells, n).str = spells /\ Str(spells, n).n = n
BY DEF Str

LEMMA RaiseIs == ASSUME NEW error PROVE DOMAIN Raise(error) = {"raise"}
BY DEF Raise

LEMMA Whole == ASSUME NEW t \in Int, t % 10 = 0 PROVE t \div 10 \in Int /\ t = 10 * (t \div 10)
OBVIOUS

LEMMA TenthsTyped ==
    ASSUME NEW v \in JsonValue, Is(v, "int") \/ Is(v, "decimal")
    PROVE  Tenths(v) \in Int
BY JsonKinds DEF Tenths, Is, None, NotANumber

----------------------------------------------------------------------------
(* What is read of a scalar is what it says.                               *)
(* An integral number reads as its integer. *)
ReadsAs(v, r) == \E n \in Int : r = Integer(n) /\ IsNumber(v) /\ Spelled(v) = 10 * n

LEMMA IntegralBelieved ==
    ASSUME NEW v \in JsonValue, ~Raised(DecodeIntegral(v))
    PROVE  (Is(v, "int") \/ Is(v, "decimal")) /\ ReadsAs(v, DecodeIntegral(v))
<1>1. CASE Is(v, "int")
  <2>1. DOMAIN v = {"int"} /\ v.int \in Int /\ v = Integer(v.int)
    BY <1>1, JsonKinds DEF Is, None, NotANumber
  <2>2. DecodeIntegral(v) = v
    BY <2>1 DEF DecodeIntegral, Is
  <2>3. IsNumber(v) /\ Spelled(v) = 10 * v.int
    BY <2>1 DEF Is, IsNumber, Spelled, Tenths
  <2> QED
    BY <1>1, <2>1, <2>2, <2>3 DEF ReadsAs
<1>2. CASE Is(v, "decimal")
  <2>1. DOMAIN v = {"decimal", "places"}
    BY <1>2, JsonKinds DEF Is, None, NotANumber
  <2>2. Tenths(v) \in Int
    BY <1>2, TenthsTyped
  <2>3. Tenths(v) % 10 = 0 /\ DecodeIntegral(v) = Integer(Tenths(v) \div 10)
    BY <2>1, RaiseIs DEF DecodeIntegral, Is, Raised
  <2>4. IsNumber(v) /\ Spelled(v) = Tenths(v)
    BY <2>1 DEF IsNumber, Spelled, Is
  <2> QED
    BY <1>2, <2>2, <2>3, <2>4, Whole DEF ReadsAs
<1>3. CASE ~Is(v, "int") /\ ~Is(v, "decimal")
  BY <1>3, RaiseIs DEF DecodeIntegral, Is, Raised
<1> QED
  BY <1>1, <1>2, <1>3

LEMMA InLongRangeIs ==
    ASSUME NEW v, ~Raised(InLongRange(v))
    PROVE  InLongRange(v) = v /\ ~Raised(v) /\ v.int \in LongRange
BY RaiseIs DEF InLongRange, Raised, Is

LEMMA LongBelieved ==
    ASSUME NEW v \in JsonValue, ~Raised(DecodeLong(v))
    PROVE  ReadsAs(v, DecodeLong(v)) /\ DecodeLong(v).int \in LongRange
<1>1. CASE ~Is(v, "str")
  <2>1. DecodeLong(v) = InLongRange(DecodeIntegral(v))
    BY <1>1 DEF DecodeLong
  <2> QED
    BY <2>1, InLongRangeIs, IntegralBelieved
<1>2. CASE Is(v, "str")
  <2>1. v.str \in SpellsLong /\ DecodeLong(v) = InLongRange(Integer(v.n))
    BY <1>2, RaiseIs DEF DecodeLong, Raised, Is
  <2>2. DOMAIN v = {"str", "n"} /\ v.n \in Int
    BY <1>2, JsonKinds DEF Is, None, NotANumber
  <2>3. IsNumber(v) /\ Spelled(v) = 10 * v.n
    BY <2>1, <2>2 DEF IsNumber, Spelled, Is, SpellsLong, Numeric
  <2> QED
    BY <2>1, <2>2, <2>3, InLongRangeIs, IntegerIs DEF ReadsAs
<1> QED
  BY <1>1, <1>2

LEMMA DecimalBelieved ==
    ASSUME NEW v \in JsonValue, ~Raised(DecodeDecimal(v))
    PROVE  /\ DecodeDecimal(v) \in [decimal : Int, places : {0, 1}]
           /\ DenotesScalar(v, DecodeDecimal(v))
<1> DEFINE r == DecodeDecimal(v)
<1>1. ASSUME NEW n \in Int, NEW places \in {0, 1}, r = Decimal(n, places),
             IsNumber(v), Spelled(v) = IF places = 1 THEN n ELSE 10 * n
      PROVE  r \in [decimal : Int, places : {0, 1}] /\ DenotesScalar(v, r)
  BY <1>1 DEF Decimal, DenotesScalar, Is, Tenths
<1>2. CASE Is(v, "int")
  <2>1. DOMAIN v = {"int"} /\ v.int \in Int
    BY <1>2, JsonKinds DEF Is, None, NotANumber
  <2>2. r = Decimal(v.int, 0)
    BY <2>1 DEF DecodeDecimal, Is
  <2>3. IsNumber(v) /\ Spelled(v) = 10 * v.int
    BY <2>1 DEF Is, IsNumber, Spelled, Tenths
  <2> QED
    BY <1>1, <2>1, <2>2, <2>3
<1>3. CASE Is(v, "decimal")
  <2>1. v \in [decimal : Int, places : {0, 1}]
    BY <1>3 DEF JsonValue, JsonFlat, JsonScalar, Numbers, Is, None, NotANumber, Dict
  <2>2. r = v /\ v = Decimal(v.decimal, v.places)
    BY <2>1 DEF DecodeDecimal, Is, Decimal
  <2>3. IsNumber(v) /\ Spelled(v) = IF v.places = 1 THEN v.decimal ELSE 10 * v.decimal
    BY <2>1 DEF Is, IsNumber, Spelled, Tenths
  <2> QED
    BY <1>1, <2>1, <2>2, <2>3
<1>4. CASE Is(v, "str")
  <2>1. DOMAIN v = {"str", "n"} /\ v.n \in Int
    BY <1>4, JsonKinds DEF Is, None, NotANumber
  <2>2. \/ v.str \in SpellsLong \cup {"loose"} /\ r = Decimal(v.n, 0)
        \/ v.str = "real" /\ r = Decimal(v.n, 1)
    BY <2>1, RaiseIs DEF DecodeDecimal, Is, Raised, SpellsLong
  <2>3. IsNumber(v) /\ Spelled(v) = IF v.str = "real" THEN v.n ELSE 10 * v.n
    BY <2>1, <2>2 DEF Is, IsNumber, Spelled, SpellsLong, Numeric
  <2>4. CASE v.str = "real"
    <3>1. r = Decimal(v.n, 1)
      BY <2>2, <2>4 DEF SpellsLong
    <3> QED
      BY <1>1, <2>1, <2>3, <2>4, <3>1
  <2>5. CASE v.str # "real"
    BY <1>1, <2>1, <2>2, <2>3, <2>5
  <2> QED
    BY <2>4, <2>5
<1>5. CASE ~Is(v, "int") /\ ~Is(v, "decimal") /\ ~Is(v, "str")
  BY <1>5, RaiseIs DEF DecodeDecimal, Is, Raised
<1> QED
  BY <1>2, <1>3, <1>4, <1>5

(* The least member of a set of numbers. *)
LEMMA HasFirst ==
    ASSUME NEW T, T \subseteq Nat, T # {}
    PROVE  \E x \in T : \A y \in T : ~(y < x)
<1> DEFINE R == OpToRel(<, Nat)
<1>1. IsWellFoundedOn(R, Nat)
  BY NatLessThanWellFounded
<1>2. \E x \in T : \A y \in T : <<y, x>> \notin R
  <2> HIDE DEF R
  <2> QED
    BY <1>1, WFMin, Zenon
<1>3. \A x, y \in T : y < x => <<y, x>> \in R
  BY DEF OpToRel
<1> QED
  BY <1>2, <1>3

(* The scale of a double is one that fills it. *)
LEMMA ScaleHas ==
    ASSUME NEW num \in Int
    PROVE  /\ Scale(num, 10 * (Thousand * Thousand)) \in Nat \ {0}
           /\ \/ num = 0
              \/ 2 * (Scale(num, 10 * (Thousand * Thousand)) * Magnitude(num))
                    >= (SafeBoundary + 1) * (10 * (Thousand * Thousand))
<1> DEFINE second == Thousand * Thousand
           den == 10 * second
           size == Magnitude(num)
<1>1. second \in Nat /\ SafeBoundary + 1 \in Nat /\ size \in Nat /\ (num # 0 => size >= 1)
  BY ScalarAssumption DEF Magnitude
<1>2. PICK q \in Scales : q >= (SafeBoundary + 1) * (5 * second)
  BY ScalarAssumption
<1>3. q \in Nat
  BY ScalarAssumption
<1>4. q \in Filling(num, den)
  <2>1. CASE num = 0
    BY <2>1 DEF Filling
  <2>2. CASE num # 0
    <3> HIDE DEF second, size
    <3>1. q * size >= q
      BY <1>1, <1>3, <2>2
    <3>2. (SafeBoundary + 1) * den = 2 * ((SafeBoundary + 1) * (5 * second))
      BY <1>1
    <3>3. (SafeBoundary + 1) * (5 * second) \in Nat /\ q * size \in Nat
      BY <1>1, <1>3
    <3>4. 2 * (q * size) >= (SafeBoundary + 1) * den
      BY <1>2, <1>3, <3>1, <3>2, <3>3
    <3> QED
      BY <3>4 DEF Filling, size
  <2> QED
    BY <2>1, <2>2
<1>5. \E least \in Filling(num, den) : \A finer \in Filling(num, den) : least <= finer
  <2>1. Filling(num, den) \subseteq Nat
    BY ScalarAssumption DEF Filling
  <2>2. PICK least \in Filling(num, den) : \A finer \in Filling(num, den) : ~(finer < least)
    BY <1>4, <2>1, HasFirst
  <2> QED
    BY <2>1, <2>2
<1>6. Scale(num, den) \in Filling(num, den)
  BY <1>5 DEF Scale
<1> QED
  BY <1>6, ScalarAssumption DEF Filling

LEMMA DividedUp ==
    ASSUME NEW a \in Int, NEW b \in Nat \ {0}
    PROVE  /\ a \div b \in Int /\ a % b \in Nat /\ a % b < b
           /\ a = (b * (a \div b)) + (a % b)
OBVIOUS

(* What is nearest is at most half away, and a whole number is nearest     *)
(* to itself.                                                              *)
LEMMA NearestIs ==
    ASSUME NEW a \in Int, NEW b \in Nat \ {0}
    PROVE  /\ Nearest(a, b) \in Int
           /\ 2 * (b * Nearest(a, b) - a) <= b /\ -b <= 2 * (b * Nearest(a, b) - a)
<1> DEFINE below == a \div b
           rest == a % b
<1>1. below \in Int /\ rest \in Nat /\ rest < b /\ a = (b * below) + rest
  BY DividedUp
<1>2. \/ Nearest(a, b) = below + 1 /\ 2 * rest >= b
      \/ Nearest(a, b) = below /\ 2 * rest <= b
  BY <1>1 DEF Nearest
<1> HIDE DEF below, rest
<1>3. b * (below + 1) = (b * below) + b /\ b * below \in Int
  BY <1>1
<1>4. CASE Nearest(a, b) = below + 1 /\ 2 * rest >= b
  BY <1>1, <1>3, <1>4
<1>5. CASE Nearest(a, b) = below /\ 2 * rest <= b
  BY <1>1, <1>3, <1>5
<1> QED
  BY <1>2, <1>4, <1>5

LEMMA NearestWhole ==
    ASSUME NEW k \in Int, NEW b \in Nat \ {0}
    PROVE  Nearest(k * b, b) = k
<1> DEFINE r == Nearest(k * b, b)
<1>1. k * b \in Int
  OBVIOUS
<1>2. r \in Int /\ 2 * (b * r - k * b) <= b /\ -b <= 2 * (b * r - k * b)
  BY <1>1, NearestIs
<1> HIDE DEF r
<1>3. b * r - k * b = b * (r - k)
  BY <1>2
<1>4. CASE r - k >= 1
  <2>1. b * (r - k) >= b
    BY <1>2, <1>4
  <2> QED
    BY <1>2, <1>3, <2>1
<1>5. CASE r - k <= -1
  <2>1. b * (r - k) <= -b
    BY <1>2, <1>5
  <2> QED
    BY <1>2, <1>3, <2>1
<1>6. r = k
  BY <1>2, <1>4, <1>5
<1> QED
  BY <1>6 DEF r

(* What an epoch number becomes: tenths of the finest unit, rounded to a   *)
(* double of seconds and back.                                             *)
EpochAt(tenths) ==
    LET second == Thousand * Thousand
        scale == Scale(tenths, 10 * second)
    IN  Nearest(Nearest(tenths * scale, 10 * second) * second, scale)

LEMMA Cancelled ==
    ASSUME NEW c \in Nat \ {0}, NEW x \in Int, NEW y \in Int, c * x <= c * y
    PROVE  x <= y
<1>1. CASE x >= y + 1
  <2>1. c * x >= c * (y + 1)
    BY <1>1
  <2>2. c * (y + 1) = (c * y) + c
    OBVIOUS
  <2>3. c * x \in Int /\ c * y \in Int
    OBVIOUS
  <2> QED
    BY <2>1, <2>2, <2>3
<1> QED
  BY <1>1

(* An error of half a step of the last rounding and half one of the first, *)
(* in the terms that both bounds are multiplied out to.                    *)
LEMMA TwoRoundings ==
    ASSUME NEW e \in Int, NEW q \in Nat \ {0}, NEW S \in Nat, NEW d \in Nat, NEW size \in Nat,
           2 * (q * e) <= 10 * q + d, S * d <= 2 * (q * size)
    PROVE  S * e <= 5 * S + size
<1>1. /\ q * e \in Int /\ S * e \in Int /\ S * d \in Int /\ q * size \in Int
      /\ S * (2 * (q * e)) \in Int /\ S * (10 * q) \in Int /\ q * S \in Int
  OBVIOUS
<1>2. S * (2 * (q * e)) <= S * (10 * q + d)
  <2>1. 10 * q + d - 2 * (q * e) \in Nat
    BY <1>1
  <2>2. S * (10 * q + d - 2 * (q * e)) \in Nat
    BY <2>1
  <2>3. S * (10 * q + d - 2 * (q * e)) = S * (10 * q + d) - S * (2 * (q * e))
    BY <1>1
  <2> QED
    BY <1>1, <2>2, <2>3
<1>3. S * (10 * q + d) = 10 * (q * S) + S * d
  OBVIOUS
<1>4. S * (2 * (q * e)) = (2 * q) * (S * e)
  BY <1>1
<1>5. (2 * q) * (5 * S + size) = 10 * (q * S) + 2 * (q * size)
  OBVIOUS
<1>6. (2 * q) * (S * e) <= (2 * q) * (5 * S + size)
  BY <1>1, <1>2, <1>3, <1>4, <1>5
<1>7. 2 * q \in Nat \ {0} /\ 5 * S + size \in Int
  OBVIOUS
<1> QED
  BY <1>1, <1>6, <1>7, Cancelled

LEMMA EpochIsAbout ==
    ASSUME NEW n \in Int
    PROVE  EpochAt(n) \in Int /\ IsAbout(10 * EpochAt(n), n)
<1> DEFINE second == Thousand * Thousand
           d == 10 * second
           q == Scale(n, d)
           m == Nearest(n * q, d)
           at == Nearest(m * second, q)
           S == SafeBoundary + 1
           e == 10 * at - n
<1>1. second \in Nat \ {0} /\ d \in Nat \ {0} /\ S \in Nat
  BY ScalarAssumption
<1>2. q \in Nat \ {0} /\ (n = 0 \/ S * d <= 2 * (q * Magnitude(n)))
  BY ScaleHas, <1>1, ScalarAssumption DEF Magnitude
<1>3. EpochAt(n) = at
  BY DEF EpochAt
<1> HIDE DEF second, q
<1>4. n * q \in Int
  BY <1>2
<1>5. m \in Int /\ 2 * (d * m - n * q) <= d /\ -d <= 2 * (d * m - n * q)
  BY <1>1, <1>4, NearestIs
<1> HIDE DEF m
<1>6. m * second \in Int
  BY <1>1, <1>5
<1>7. at \in Int /\ 2 * (q * at - m * second) <= q /\ -q <= 2 * (q * at - m * second)
  BY <1>2, <1>6, NearestIs
<1> HIDE DEF at
<1>8. e \in Int /\ q * at \in Int /\ d * m \in Int /\ Magnitude(n) \in Nat
  BY <1>1, <1>2, <1>5, <1>7 DEF Magnitude
<1>9. q * e = 10 * (q * at - m * second) + (d * m - n * q)
  <2>1. q * e = 10 * (q * at) - n * q
    BY <1>2, <1>7
  <2>2. d * m = 10 * (m * second)
    BY <1>1, <1>5
  <2> QED
    BY <1>4, <1>6, <1>8, <2>1, <2>2
<1>10. CASE n = 0
  <2>1. m = 0
    <3>1. n * q = 0 * d
      BY <1>1, <1>2, <1>10
    <3> QED
      BY <1>1, <3>1, NearestWhole DEF m
  <2>2. at = 0
    <3>1. m * second = 0 * q
      BY <1>1, <1>2, <2>1
    <3> QED
      BY <1>2, <3>1, NearestWhole DEF at
  <2> QED
    BY <1>1, <1>3, <1>10, <2>2 DEF IsAbout, Magnitude
<1>11. CASE n # 0
  <2>1. 2 * (q * e) <= 10 * q + d /\ -(10 * q + d) <= 2 * (q * e)
    BY <1>1, <1>2, <1>4, <1>5, <1>6, <1>7, <1>8, <1>9
  <2>2. S * d <= 2 * (q * Magnitude(n))
    BY <1>2, <1>11
  <2>3. 2 * (q * (-e)) <= 10 * q + d
    <3>1. q * (-e) = -(q * e) /\ q * e \in Int
      BY <1>2, <1>8
    <3> QED
      BY <1>1, <1>2, <2>1, <3>1
  <2> HIDE DEF e, S, d
  <2>4. S * e <= 5 * S + Magnitude(n)
    BY <1>1, <1>2, <1>8, <2>1, <2>2, TwoRoundings
  <2>5. S * (-e) <= 5 * S + Magnitude(n)
    <3>1. -e \in Int
      BY <1>8
    <3> QED
      BY <1>1, <1>2, <1>8, <2>2, <2>3, <3>1, TwoRoundings
  <2>6. S * Magnitude(e) <= 5 * S + Magnitude(n)
    BY <2>4, <2>5 DEF Magnitude
  <2> QED
    BY <1>3, <1>7, <2>6 DEF IsAbout, e, S
<1> QED
  BY <1>10, <1>11

LEMMA EpochBelieved ==
    ASSUME NEW v \in JsonValue, Is(v, "int") \/ Is(v, "decimal"), ~Raised(EpochDatetime(v))
    PROVE  /\ EpochDatetime(v) \in [datetime : Int]
           /\ DenotesScalar(v, EpochDatetime(v))
<1> DEFINE at == EpochAt(Tenths(v) * Unit(Tenths(v)))
<1>1. ~Is(v, "float")
  BY JsonKinds DEF Is, None, NotANumber
<1>2. EpochDatetime(v) = Datetime(at)
  BY <1>1, RaiseIs DEF EpochDatetime, EpochAt, Raised, Is
<1>3. Unit(Tenths(v)) \in Units
  BY DEF Unit, Units
<1>4. Tenths(v) \in Int
  BY TenthsTyped
<1>5. Tenths(v) * Unit(Tenths(v)) \in Int
  BY <1>3, <1>4, ScalarAssumption DEF Units
<1>6. at \in Int /\ IsAbout(10 * at, Tenths(v) * Unit(Tenths(v)))
  BY <1>5, EpochIsAbout
<1>7. \E u \in Units : IsAbout(10 * at, Tenths(v) * u)
  BY <1>3, <1>6
<1> HIDE DEF at
<1> QED
  BY <1>2, <1>6, <1>7 DEF DenotesScalar, Is, Datetime

LEMMA DatetimeBelieved ==
    ASSUME NEW v \in JsonValue, ~Raised(DecodeDatetime(v))
    PROVE  /\ DecodeDatetime(v) \in [datetime : Int] \cup [midnight : Int]
           /\ DenotesScalar(v, DecodeDatetime(v))
<1>1. CASE Is(v, "int") \/ Is(v, "decimal")
  <2>1. DecodeDatetime(v) = EpochDatetime(v)
    BY <1>1, JsonKinds DEF DecodeDatetime, Is, None, NotANumber
  <2> QED
    BY <1>1, <2>1, EpochBelieved
<1>2. CASE Is(v, "float")
  <2>1. v = NotANumber
    BY <1>2, JsonKinds DEF Is, None
  <2>2. DecodeDatetime(v) = EpochDatetime(v)
    BY <2>1 DEF DecodeDatetime, Is, NotANumber
  <2> QED
    BY <1>2, <2>2, RaiseIs DEF EpochDatetime, Raised, Is
<1>3. CASE Is(v, "str")
  <2>1. DOMAIN v = {"str", "n"} /\ v.n \in Int /\ v = Str(v.str, v.n)
    BY <1>3, JsonKinds DEF Is, None, NotANumber
  <2>2. \/ v.str = "datetime" /\ DecodeDatetime(v) = Datetime(v.n)
        \/ v.str \in {"date", "midnight"} /\ DecodeDatetime(v) = Midnight(v.n)
    BY <2>1, RaiseIs DEF DecodeDatetime, Is, Raised
  <2>3. CASE v.str = "datetime" /\ DecodeDatetime(v) = Datetime(v.n)
    BY <2>1, <2>3 DEF DenotesScalar, Datetime, Is
  <2>4. CASE v.str \in {"date", "midnight"} /\ DecodeDatetime(v) = Midnight(v.n)
    BY <2>1, <2>4 DEF DenotesScalar, Midnight, Is
  <2> QED
    BY <2>2, <2>3, <2>4
<1>4. CASE ~Is(v, "int") /\ ~Is(v, "decimal") /\ ~Is(v, "float") /\ ~Is(v, "str")
  BY <1>4, RaiseIs DEF DecodeDatetime, Raised, Is
<1> QED
  BY <1>1, <1>2, <1>3, <1>4

LEMMA DateBelieved ==
    ASSUME NEW v \in JsonValue, ~Raised(DecodeDate(v))
    PROVE  DecodeDate(v) \in [date : Int] /\ DenotesScalar(v, DecodeDate(v))
<1>1. CASE Is(v, "list")
  <2>1. v.list \in Seq(JsonFlat)
    BY <1>1, JsonKinds DEF Is, None, NotANumber
  <2>2. Len(v.list) = 3 /\ \A i \in DOMAIN v.list : ~Raised(DecodeIntegral(v.list[i]))
    BY <1>1, RaiseIs DEF DecodeDate, Raised, Is
  <2>3. \A i \in 1..3 : v.list[i] \in JsonValue /\ ~Raised(DecodeIntegral(v.list[i]))
    BY <2>1, <2>2 DEF JsonValue
  <2>4. PICK y \in Int : DecodeIntegral(v.list[1]) = Integer(y) /\ IsNumber(v.list[1])
                          /\ Spelled(v.list[1]) = 10 * y
    BY <2>3, IntegralBelieved DEF ReadsAs
  <2>5. PICK m \in Int : DecodeIntegral(v.list[2]) = Integer(m) /\ IsNumber(v.list[2])
                          /\ Spelled(v.list[2]) = 10 * m
    BY <2>3, IntegralBelieved DEF ReadsAs
  <2>6. PICK d \in Int : DecodeIntegral(v.list[3]) = Integer(d) /\ IsNumber(v.list[3])
                          /\ Spelled(v.list[3]) = 10 * d
    BY <2>3, IntegralBelieved DEF ReadsAs
  <2>7. DecodeDate(v) = Date(y * 10000 + m * 100 + d)
    BY <1>1, <2>2, <2>4, <2>5, <2>6, RaiseIs, IntegerIs DEF DecodeDate, Raised, Is
  <2>8. \A i \in 1..3 : IsNumber(v.list[i])
    BY <2>4, <2>5, <2>6
  <2>9. 10 * (y * 10000 + m * 100 + d)
          = Spelled(v.list[1]) * 10000 + Spelled(v.list[2]) * 100 + Spelled(v.list[3])
    BY <2>4, <2>5, <2>6
  <2> QED
    BY <1>1, <2>2, <2>7, <2>8, <2>9 DEF DenotesScalar, Is, Date
<1>2. CASE ~Is(v, "list")
  <2>1. Is(v, "str") /\ v.str = "date" /\ DecodeDate(v) = Date(v.n)
    BY <1>2, RaiseIs DEF DecodeDate, Raised, Is
  <2>2. v.n \in Int /\ v = Str(v.str, v.n)
    BY <2>1, JsonKinds DEF Is, None, NotANumber
  <2> QED
    BY <2>1, <2>2 DEF DenotesScalar, Date, Is
<1> QED
  BY <1>1, <1>2

----------------------------------------------------------------------------
(* Longs and epochs.                                                       *)
LEMMA LongsAreInRange == ASSUME NEW n \in LongRange PROVE InLongRange(Integer(n)) = Integer(n)
<1>1. ~Raised(Integer(n)) /\ Integer(n).int \in LongRange
  BY IntegerIs DEF Is, Raised
<1> QED
  BY <1>1 DEF InLongRange

LEMMA IntegerDecodes == ASSUME NEW n \in LongRange PROVE DecodeLong(Integer(n)) = Integer(n)
<1>1. DecodeIntegral(Integer(n)) = Integer(n)
  BY IntegerIs DEF Is, DecodeIntegral
<1>2. DecodeLong(Integer(n)) = InLongRange(DecodeIntegral(Integer(n)))
  BY IntegerIs DEF Is, DecodeLong
<1> QED
  BY <1>1, <1>2, LongsAreInRange

LEMMA SpelledDecodes ==
    ASSUME NEW n \in LongRange
    PROVE  DecodeLong(Str("integer", n)) = Integer(n)
<1>1. DecodeLong(Str("integer", n)) = InLongRange(Integer(n))
  BY SpelledIs DEF Is, DecodeLong, SpellsLong
<1> QED
  BY <1>1, LongsAreInRange

(* transport.py, _serialize_java_long, and codec.py, _decode_java_long: a   *)
(* Long a request carries, as a number or as the string it becomes outside *)
(* the safe range, reads back as the same Long.                            *)
THEOREM LongRoundTrip ==
    ASSUME NEW n \in LongRange, NEW forSignature \in BOOLEAN
    PROVE  DecodeLong(SerializeLong(Integer(n), forSignature)) = Integer(n)
<1>1. SerializeLong(Integer(n), forSignature) \in {Integer(n), Str("integer", n)}
  BY IntegerIs DEF Is, SerializeLong
<1> QED
  BY <1>1, IntegerDecodes, SpelledDecodes

(* transport.py, _serialize_java_long: a body never holds a number that a  *)
(* reader of doubles would round, and what is no Long is refused before    *)
(* anything is sent.                                                       *)
THEOREM BodiesHoldSafeNumbers ==
    ASSUME NEW n \in Int
    PROVE  LET out == SerializeLong(Integer(n), FALSE)
           IN  /\ Raised(out) <=> n \notin LongRange
               /\ Is(out, "int") => out.int = n /\ Magnitude(n) < SafeBoundary
<1>1. /\ Raised(Raise("ValueError")) /\ ~Is(Raise("ValueError"), "int")
      /\ ~Raised(Integer(n)) /\ Integer(n).int = n
      /\ ~Raised(Str("integer", n)) /\ ~Is(Str("integer", n), "int")
  BY IntegerIs, SpelledIs, RaiseIs DEF Is, Raised
<1>2. CASE n \notin LongRange
  <2>1. SerializeLong(Integer(n), FALSE) = Raise("ValueError")
    BY <1>2, IntegerIs DEF Is, SerializeLong
  <2> QED
    BY <1>1, <1>2, <2>1
<1>3. CASE n \in LongRange /\ n > -SafeBoundary /\ n < SafeBoundary
  <2>1. SerializeLong(Integer(n), FALSE) = Integer(n)
    BY <1>3, IntegerIs DEF Is, SerializeLong
  <2>2. Magnitude(n) < SafeBoundary
    BY <1>3, ScalarAssumption DEF Magnitude
  <2> QED
    BY <1>1, <1>3, <2>1, <2>2
<1>4. CASE n \in LongRange /\ ~(n > -SafeBoundary /\ n < SafeBoundary)
  <2>1. SerializeLong(Integer(n), FALSE) = Str("integer", n)
    BY <1>4, IntegerIs DEF Is, SerializeLong
  <2> QED
    BY <1>1, <1>4, <2>1
<1> QED
  BY <1>2, <1>3, <1>4

LEMMA TenthsOfInteger == ASSUME NEW n \in Int PROVE Tenths(Integer(n)) = 10 * n
BY IntegerIs DEF Is, Tenths

(* What an integer counted in the given unit is read as, if that is a      *)
(* whole number of seconds.                                                *)
LEMMA IntegerEpoch ==
    ASSUME NEW n \in Int, NEW u \in Int, Unit(10 * n) = u, NEW s \in Int,
           n * u = s * (Thousand * Thousand),
           s * (Thousand * Thousand) \in FirstInstant..LastInstant
    PROVE  EpochDatetime(Integer(n)) = Datetime(s * (Thousand * Thousand))
<1> DEFINE second == Thousand * Thousand
           d == 10 * second
           tenths == (10 * n) * u
           q == Scale(tenths, d)
<1>1. ~Is(Integer(n), "float")
  BY DEF Is, Integer
<1>2. second \in Nat \ {0} /\ d \in Nat \ {0} /\ tenths \in Int
  BY ScalarAssumption
<1>3. q \in Nat \ {0}
  BY <1>2, ScaleHas
<1>4. EpochAt(tenths) = Nearest(Nearest(tenths * q, d) * second, q)
  BY DEF EpochAt
<1>5. tenths = s * d
  <2>1. tenths = 10 * (n * u)
    OBVIOUS
  <2> HIDE DEF tenths, second
  <2> QED
    BY <1>2, <2>1 DEF second
<1> HIDE DEF second, tenths, q
<1>6. Nearest(tenths * q, d) = s * q
  <2>1. tenths * q = (s * q) * d
    BY <1>2, <1>3, <1>5
  <2>2. s * q \in Int
    BY <1>3
  <2> HIDE DEF d
  <2> QED
    BY <1>2, <2>1, <2>2, NearestWhole
<1>7. Nearest((s * q) * second, q) = s * second
  <2>1. (s * q) * second = (s * second) * q /\ s * second \in Int
    BY <1>2, <1>3
  <2> QED
    BY <1>3, <2>1, NearestWhole
<1>8. EpochAt(tenths) = s * second
  BY <1>4, <1>6, <1>7
<1>9. s * second \in FirstInstant..LastInstant
  BY DEF second
<1>10. Tenths(Integer(n)) * Unit(Tenths(Integer(n))) = tenths
  BY TenthsOfInteger DEF tenths
<1> QED
  BY <1>1, <1>8, <1>9, <1>10 DEF EpochDatetime, EpochAt, second

(* codec.py, _decode_epoch_datetime: although the seconds become a double, *)
(* a whole number of seconds, milliseconds or microseconds is read as      *)
(* exactly that instant, up to 2^52 microseconds (the year 2112).          *)
THEOREM EpochsAreExact ==
    ASSUME NEW n \in Int, 2 * Magnitude(n * Unit(10 * n)) < SafeBoundary + 1,
           n * Unit(10 * n) \in FirstInstant..LastInstant
    PROVE  EpochDatetime(Integer(n)) = Datetime(n * Unit(10 * n))
<1> DEFINE x == n * Unit(10 * n)
           tenths == (10 * n) * Unit(10 * n)
           at == EpochAt(tenths)
           S == SafeBoundary + 1
<1>1. ~Is(Integer(n), "float")
  BY DEF Is, Integer
<1>2. Unit(10 * n) \in Int
  BY ScalarAssumption DEF Unit
<1>3. tenths = 10 * x /\ x \in Int /\ tenths \in Int /\ S \in Nat \ {0}
  BY <1>2, ScalarAssumption
<1>4. at \in Int /\ IsAbout(10 * at, tenths)
  BY <1>3, EpochIsAbout
<1>5. Tenths(Integer(n)) * Unit(Tenths(Integer(n))) = tenths
  BY TenthsOfInteger
<1>6. EpochDatetime(Integer(n)) = IF at \in FirstInstant..LastInstant THEN Datetime(at)
                                 ELSE Raise("ValueError")
  BY <1>1, <1>5 DEF EpochDatetime, EpochAt
<1>7. 2 * Magnitude(x) < S /\ x \in FirstInstant..LastInstant
  OBVIOUS
<1> HIDE DEF x, tenths, at, S
<1>8. S * Magnitude(10 * at - tenths) <= 5 * S + Magnitude(tenths)
  BY <1>4 DEF IsAbout, S
<1>9. Magnitude(tenths) = 10 * Magnitude(x) /\ Magnitude(x) \in Nat
  BY <1>3 DEF Magnitude
<1>10. Magnitude(10 * at - tenths) = 10 * Magnitude(at - x) /\ Magnitude(at - x) \in Nat
  BY <1>3, <1>4 DEF Magnitude
<1>11. S * (10 * Magnitude(at - x)) < 10 * S
  BY <1>3, <1>7, <1>8, <1>9, <1>10
<1>12. Magnitude(at - x) < 1
  <2> DEFINE off == Magnitude(at - x)
  <2>1. off \in Nat /\ S * (10 * off) < 10 * S
    BY <1>10, <1>11
  <2> HIDE DEF off
  <2>2. S * (10 * off) = 10 * (S * off)
    BY <1>3, <2>1
  <2>3. off >= 1 => S * off >= S
    BY <1>3, <2>1
  <2>4. S * off \in Nat
    BY <1>3, <2>1
  <2>5. off < 1
    BY <1>3, <2>1, <2>2, <2>3, <2>4
  <2> QED
    BY <2>5 DEF off
<1>13. at = x
  BY <1>3, <1>4, <1>12 DEF Magnitude
<1> QED
  BY <1>6, <1>7, <1>13 DEF x

(* codec.py, _decode_epoch_datetime: an instant is the same datetime       *)
(* whether it is sent in seconds, milliseconds or microseconds, from the   *)
(* first instant whose milliseconds reach the threshold to the last whose  *)
(* seconds do not.                                                         *)
THEOREM EpochUnitsAgree ==
    ASSUME NEW s \in Nat, MillisFrom <= s * Thousand, s < MillisFrom,
           s * (Thousand * Thousand) <= LastInstant
    PROVE  /\ EpochDatetime(Integer(s)) = Datetime(s * (Thousand * Thousand))
           /\ EpochDatetime(Integer(s * Thousand)) = Datetime(s * (Thousand * Thousand))
           /\ EpochDatetime(Integer(s * (Thousand * Thousand)))
                = Datetime(s * (Thousand * Thousand))
<1> DEFINE ms == s * Thousand
           us == s * (Thousand * Thousand)
<1>1. ms \in Nat /\ us \in Nat /\ us = ms * Thousand
  BY ScalarAssumption
<1>2. MillisFrom * Thousand \in Nat /\ MillisFrom <= MillisFrom * Thousand
  BY ScalarAssumption
<1>3. ms < MillisFrom * Thousand
  BY ScalarAssumption
<1>4. MillisFrom * Thousand <= us
  BY <1>1, ScalarAssumption
<1>5. Magnitude(10 * s) = 10 * s /\ Magnitude(10 * ms) = 10 * ms /\ Magnitude(10 * us) = 10 * us
  BY <1>1 DEF Magnitude
<1>6. 10 * MillisFrom * Thousand = 10 * (MillisFrom * Thousand)
  BY ScalarAssumption
<1>7. us \in FirstInstant..LastInstant
  BY <1>1, ScalarAssumption
<1> HIDE DEF ms, us
<1>8. Unit(10 * s) = Thousand * Thousand
  BY <1>2, <1>5, <1>6, ScalarAssumption DEF Unit
<1>9. Unit(10 * ms) = Thousand
  BY <1>1, <1>2, <1>3, <1>5, <1>6, ScalarAssumption DEF Unit, ms
<1>10. Unit(10 * us) = 1
  <2>1. Magnitude(10 * us) >= 10 * MillisFrom * Thousand
    BY <1>1, <1>2, <1>4, <1>5, <1>6
  <2> QED
    BY <2>1 DEF Unit
<1>11. EpochDatetime(Integer(s)) = Datetime(us)
  BY <1>7, <1>8, IntegerEpoch, ScalarAssumption DEF us
<1>12. EpochDatetime(Integer(ms)) = Datetime(us)
  BY <1>1, <1>7, <1>9, IntegerEpoch, ScalarAssumption DEF us
<1>13. EpochDatetime(Integer(us)) = Datetime(us)
  <2>1. us * 1 = s * (Thousand * Thousand) /\ 1 \in Int
    BY <1>1 DEF us
  <2> QED
    BY <1>1, <1>7, <1>10, <2>1, IntegerEpoch DEF us
<1> QED
  BY <1>11, <1>12, <1>13 DEF ms, us

----------------------------------------------------------------------------
(* Items and fields: what is read is what the data say.                    *)
(* What a field without parts may hold once it is read. *)
ReadScalar ==
    {None} \cup [int : Int] \cup [decimal : Int, places : {0, 1}] \cup [datetime : Int]
    \cup [midnight : Int] \cup [date : Int] \cup [str : Spellings, n : Int]
ReadValue == ReadScalar \cup [list : Seq(ReadScalar)]

ScalarTypes == {Annotation[a] : a \in {"long", "int", "str", "decimal", "datetime", "date"}}

LEMMA ReadKinds ==
    ASSUME NEW r \in ReadScalar
    PROVE  /\ ~Is(r, "list") /\ ~Is(r, "model") /\ ~Is(r, "raise") /\ ~Is(r, "class")
           /\ ~Is(r, "dict") /\ ~Is(r, "bool")
BY DEF ReadScalar, Is, None

LEMMA DecodeScalarIs ==
    ASSUME NEW v, v # None
    PROVE  /\ DecodeScalar(v, Long) = DecodeLong(v)
           /\ DecodeScalar(v, Plain("Decimal")) = DecodeDecimal(v)
           /\ DecodeScalar(v, Plain("datetime")) = DecodeDatetime(v)
           /\ DecodeScalar(v, Plain("date")) = DecodeDate(v)
           /\ DecodeScalar(v, Plain("int")) = DecodeIntegral(v)
           /\ DecodeScalar(v, Plain("str")) = DecodeStr(v)
BY DEF DecodeScalar, Long, Plain

LEMMA DecodeNone == ASSUME NEW type PROVE DecodeScalar(None, type) = None
BY DEF DecodeScalar

LEMMA NoneDenotes == DenotesScalar(None, None)
BY DEF DenotesScalar, None, Is

LEMMA ReadsAsDenotes ==
    ASSUME NEW v, NEW r, ReadsAs(v, r)
    PROVE  r \in [int : Int] /\ DenotesScalar(v, r)
BY DEF ReadsAs, DenotesScalar, Integer, Is, Tenths

(* codec.py, decode_value: what is read of a scalar is what it says. *)
LEMMA ScalarBelieved ==
    ASSUME NEW v \in JsonValue, NEW type \in ScalarTypes, ~Raised(DecodeScalar(v, type))
    PROVE  /\ DecodeScalar(v, type) \in ReadScalar
           /\ DenotesScalar(v, DecodeScalar(v, type))
<1>1. CASE v = None
  BY <1>1, DecodeNone, NoneDenotes DEF ReadScalar
<1>2. CASE v # None /\ type = Long
  BY <1>2, DecodeScalarIs, LongBelieved, ReadsAsDenotes DEF ReadScalar
<1>3. CASE v # None /\ type = Plain("int")
  BY <1>3, DecodeScalarIs, IntegralBelieved, ReadsAsDenotes DEF ReadScalar
<1>4. CASE v # None /\ type = Plain("Decimal")
  BY <1>4, DecodeScalarIs, DecimalBelieved DEF ReadScalar
<1>5. CASE v # None /\ type = Plain("datetime")
  BY <1>5, DecodeScalarIs, DatetimeBelieved DEF ReadScalar
<1>6. CASE v # None /\ type = Plain("date")
  BY <1>6, DecodeScalarIs, DateBelieved DEF ReadScalar
<1>7. CASE v # None /\ type = Plain("str")
  <2>1. DecodeScalar(v, type) = v /\ Is(v, "str")
    BY <1>7, DecodeScalarIs, RaiseIs DEF DecodeStr, Raised, Is
  <2>2. v \in [str : Spellings, n : Int]
    BY <2>1 DEF JsonValue, JsonFlat, JsonScalar, Numbers, Is, None, NotANumber, Dict
  <2>3. DenotesScalar(v, v)
    BY <2>2 DEF DenotesScalar, Is
  <2> QED
    BY <2>1, <2>2, <2>3 DEF ReadScalar
<1> QED
  BY <1>1, <1>2, <1>3, <1>4, <1>5, <1>6, <1>7 DEF ScalarTypes, Annotation

LEMMA LongIsLong ==
    ASSUME NEW v \in JsonValue, ~Raised(DecodeScalar(v, Long))
    PROVE  DecodeScalar(v, Long) \in {None} \cup [int : LongRange]
<1>1. CASE v = None
  BY <1>1, DecodeNone
<1>2. CASE v # None
  BY <1>2, DecodeScalarIs, LongBelieved, IntegerIs DEF ReadsAs, Integer
<1> QED
  BY <1>1, <1>2

LEMMA StrIsStr ==
    ASSUME NEW v \in JsonValue, ~Raised(DecodeScalar(v, Plain("str")))
    PROVE  DecodeScalar(v, Plain("str")) \in {None} \cup [str : Spellings, n : Int]
<1>1. CASE v = None
  BY <1>1, DecodeNone
<1>2. CASE v # None
  <2>1. DecodeScalar(v, Plain("str")) = v /\ Is(v, "str")
    BY <1>2, DecodeScalarIs, RaiseIs DEF DecodeStr, Raised, Is
  <2>2. v \in [str : Spellings, n : Int]
    BY <2>1 DEF JsonValue, JsonFlat, JsonScalar, Numbers, Is, None, NotANumber, Dict
  <2> QED
    BY <2>1, <2>2
<1> QED
  BY <1>1, <1>2

(* What a field of the type holds, if it is a Long or a string. *)
Holds(r, type) ==
    /\ type = Long => r \in {None} \cup [int : LongRange]
    /\ type = Plain("str") => r \in {None} \cup [str : Spellings, n : Int]

(* Of the items of a list the first error is the error. *)
LEMMA AllOfEither ==
    ASSUME NEW n \in Nat, NEW s, DOMAIN s = 1..n
    PROVE  \/ AllOf(s) = List(s) /\ \A i \in DOMAIN s : ~Raised(s[i])
           \/ \E i \in DOMAIN s : Raised(s[i]) /\ AllOf(s) = s[i]
<1> DEFINE bad == {i \in 1..n : Raised(s[i])}
<1>1. CASE bad # {}
  <2>1. PICK i \in bad : \A j \in bad : ~(j < i)
    <3>1. bad \subseteq Nat
      OBVIOUS
    <3> HIDE DEF bad
    <3> QED
      BY <1>1, <3>1, HasFirst
  <2>2. \A j \in 1..(i - 1) : ~Raised(s[j])
    BY <2>1
  <2>3. \E k \in DOMAIN s : Raised(s[k]) /\ \A j \in 1..(k - 1) : ~Raised(s[j])
    BY <2>1, <2>2
  <2> DEFINE first == CHOOSE k \in DOMAIN s : Raised(s[k]) /\ \A j \in 1..(k - 1) : ~Raised(s[j])
  <2>4. first \in DOMAIN s /\ Raised(s[first])
    BY <2>3
  <2>5. AllOf(s) = s[first]
    BY <1>1 DEF AllOf
  <2> QED
    BY <2>4, <2>5
<1>2. CASE bad = {}
  BY <1>2 DEF AllOf
<1> QED
  BY <1>1, <1>2

LEMMA AllOfIs ==
    ASSUME NEW n \in Nat, NEW s, DOMAIN s = 1..n, ~Raised(AllOf(s))
    PROVE  AllOf(s) = List(s) /\ \A i \in DOMAIN s : ~Raised(s[i])
BY AllOfEither

LEMMA ListIs == ASSUME NEW s PROVE DOMAIN List(s) = {"list"} /\ List(s).list = s
BY DEF List

LEMMA DenotesFieldScalar ==
    ASSUME NEW json, NEW r \in ReadScalar, DenotesScalar(json, r)
    PROVE  DenotesField(json, r)
BY ReadKinds DEF DenotesField, InItems

StrsType == ListOf(Plain("str"))

LEMMA StrsAre == StrsType = Annotation["strs"] /\ Is(StrsType, "listOf") /\ StrsType.listOf = Plain("str")
                 /\ Plain("str") \in ScalarTypes
BY DEF StrsType, Annotation, ListOf, Is, ScalarTypes

LEMMA NotLists == \A type \in ScalarTypes : ~Is(type, "listOf")
BY DEF ScalarTypes, Annotation, Is, Long, Plain

(* A list is what its items are. *)
LEMMA ListBelieved ==
    ASSUME NEW v, DOMAIN v = {"list"}, v.list \in Seq(JsonFlat),
           NEW type \in ScalarTypes,
           NEW r, r = AllOf([i \in DOMAIN v.list |-> DecodeScalar(v.list[i], type)]),
           ~Raised(r)
    PROVE  r \in [list : Seq(ReadScalar)] /\ InItems(v, r, DenotesScalar)
<1> DEFINE read == [i \in DOMAIN v.list |-> DecodeScalar(v.list[i], type)]
           n == Len(v.list)
<1>1. n \in Nat /\ DOMAIN v.list = 1..n
  OBVIOUS
<1>2. r = List(read) /\ \A i \in 1..n : ~Raised(read[i])
  <2>1. DOMAIN read = 1..n
    BY <1>1
  <2>2. r = AllOf(read)
    OBVIOUS
  <2> HIDE DEF read, n
  <2> QED
    BY <1>1, <2>1, <2>2, AllOfIs
<1>3. ASSUME NEW i \in 1..n
      PROVE  read[i] \in ReadScalar /\ DenotesScalar(v.list[i], read[i])
  <2>1. v.list[i] \in JsonValue
    BY DEF JsonValue
  <2>2. read[i] = DecodeScalar(v.list[i], type)
    OBVIOUS
  <2> HIDE DEF read
  <2> QED
    BY <1>2, <2>1, <2>2, ScalarBelieved
<1>4. read \in Seq(ReadScalar) /\ Len(read) = n
  BY <1>1, <1>3
<1> HIDE DEF read
<1>5. r.list = read /\ DOMAIN r = {"list"} /\ r \in [list : Seq(ReadScalar)]
  BY <1>2, <1>4 DEF List
<1> QED
  BY <1>1, <1>3, <1>4, <1>5 DEF InItems, Is

FieldTypes == {Annotation[a] : a \in ResponseKinds}

LEMMA FieldTypesAre == FieldTypes = ScalarTypes \cup {StrsType}
BY DEF FieldTypes, ResponseKinds, ScalarTypes, StrsType, Annotation

LEMMA ItemsBelieved ==
    ASSUME NEW v \in JsonValue, NEW type \in FieldTypes, ~Raised(DecodeItems(v, type))
    PROVE  DecodeItems(v, type) \in ReadValue /\ DenotesField(v, DecodeItems(v, type))
<1>1. CASE v = None \/ type \in ScalarTypes
  <2>1. DecodeItems(v, type) = DecodeScalar(v, type)
    BY <1>1, NotLists DEF DecodeItems
  <2>2. DecodeScalar(v, type) \in ReadScalar /\ DenotesScalar(v, DecodeScalar(v, type))
    <3>1. CASE v = None
      BY <3>1, DecodeNone, NoneDenotes DEF ReadScalar
    <3>2. CASE v # None
      BY <1>1, <2>1, <3>2, ScalarBelieved
    <3> QED
      BY <3>1, <3>2
  <2> QED
    BY <2>1, <2>2, DenotesFieldScalar DEF ReadValue
<1>2. CASE v # None /\ type = StrsType
  <2> DEFINE r == DecodeItems(v, type)
  <2>1. Is(v, "list")
    BY <1>2, StrsAre, RaiseIs DEF DecodeItems, Raised, Is
  <2>2. DOMAIN v = {"list"} /\ v.list \in Seq(JsonFlat)
    BY <2>1, JsonKinds DEF Is, None, NotANumber
  <2>3. r = AllOf([i \in DOMAIN v.list |-> DecodeScalar(v.list[i], Plain("str"))])
    BY <1>2, <2>1, StrsAre DEF DecodeItems
  <2>4. ~Raised(r)
    OBVIOUS
  <2> HIDE DEF r
  <2> QED
    BY <2>2, <2>3, <2>4, StrsAre, ListBelieved DEF DenotesField, ReadValue, r
<1> QED
  BY <1>1, <1>2, FieldTypesAre

LEMMA OptionalIs == ASSUME NEW type PROVE Optional(type).optional = type
BY DEF Optional

LEMMA FieldBelieved ==
    ASSUME NEW v \in JsonValue, NEW type \in FieldTypes, ~Raised(DecodeField(v, Optional(type)))
    PROVE  /\ DecodeField(v, Optional(type)) \in ReadValue
           /\ DenotesField(v, DecodeField(v, Optional(type)))
           /\ Holds(DecodeField(v, Optional(type)), type)
<1>1. CASE v = None
  <2>1. DecodeField(v, Optional(type)) = None
    BY <1>1 DEF DecodeField
  <2>2. None \in ReadScalar
    BY DEF ReadScalar
  <2> QED
    BY <1>1, <2>1, <2>2, NoneDenotes, DenotesFieldScalar DEF ReadValue, Holds
<1>2. CASE v # None
  <2> DEFINE r == DecodeItems(v, type)
  <2>1. DecodeField(v, Optional(type)) = Either(r)
    BY <1>2, OptionalIs DEF DecodeField
  <2>2. Either(r) = r /\ ~Raised(r)
    BY <2>1, RaiseIs DEF Either, Raised, Is
  <2>3. r \in ReadValue /\ DenotesField(v, r)
    BY <2>2, ItemsBelieved
  <2>4. Holds(r, type)
    <3>1. ASSUME type \in {Long, Plain("str")}
          PROVE  r = DecodeScalar(v, type)
      BY <3>1 DEF DecodeItems, Is, Long, Plain
    <3>2. CASE type = Long
      BY <2>2, <3>1, <3>2, LongIsLong DEF Holds, Long, Plain
    <3>3. CASE type = Plain("str")
      BY <2>2, <3>1, <3>3, StrIsStr DEF Holds, Long, Plain
    <3> QED
      BY <3>2, <3>3 DEF Holds
  <2> QED
    BY <2>1, <2>2, <2>3, <2>4
<1> QED
  BY <1>1, <1>2

----------------------------------------------------------------------------
(* Models, lists of them and pages.                                        *)
LEMMA KeysDiffer == ASSUME NEW f, NEW g, Key(f) = Key(g) PROVE f = g
BY DEF Key

LEMMA ModelIs ==
    ASSUME NEW class, NEW f
    PROVE  /\ DOMAIN Model(class, f) = {"class", "model"}
           /\ Model(class, f).class = class /\ Model(class, f).model = f
BY DEF Model

(* The data of an object: what its fields hold, if it is one. *)
IsObject(v) ==
    \/ v \in JsonValue
    \/ DOMAIN v = {"dict"} /\ \A k \in DOMAIN v.dict : v.dict[k] \in JsonValue

(* A model that was read. *)
IsRead(r, class) ==
    /\ DOMAIN r = {"class", "model"} /\ r.class = class
    /\ DOMAIN r.model = DOMAIN Class[class]
    /\ \A f \in DOMAIN r.model :
          /\ r.model[f] \in ReadValue
          /\ \A type : Class[class][f] = Optional(type) => Holds(r.model[f], type)

LEMMA ObjectHolds ==
    ASSUME NEW v, IsObject(v), Is(v, "dict"), NEW k \in DOMAIN v.dict
    PROVE  v.dict[k] \in JsonValue
<1>1. CASE v \in JsonValue
  <2>1. v = Dict(<<>>)
    BY <1>1 DEF JsonValue, JsonFlat, JsonScalar, Numbers, Is, None, NotANumber
  <2> QED
    BY <2>1, DictIs
<1> QED
  BY <1>1 DEF IsObject

LEMMA GetIs ==
    ASSUME NEW v, IsObject(v), Is(v, "dict"), NEW f
    PROVE  Get(v, f) \in JsonValue
<1>1. None \in JsonValue
  BY DEF JsonValue, JsonFlat, JsonScalar
<1> QED
  BY <1>1, ObjectHolds DEF Get

LEMMA ModelBelieved ==
    ASSUME NEW v, IsObject(v), NEW class \in Responses, ~Raised(DecodeModel(v, class))
    PROVE  /\ DecodeModel(v, class) = None \/ IsRead(DecodeModel(v, class), class)
           /\ DenotesModel(v, DecodeModel(v, class))
<1> DEFINE r == DecodeModel(v, class)
           fields == [f \in DOMAIN Class[class] |->
                         IF Key(f) \in DOMAIN v.dict
                         THEN DecodeField(v.dict[Key(f)], Class[class][f])
                         ELSE None]
<1>1. CASE v = None
  <2>1. r = None
    BY <1>1 DEF DecodeModel
  <2>2. DenotesField(None, None)
    BY NoneDenotes, DenotesFieldScalar DEF ReadScalar
  <2>3. ~Is(None, "model")
    BY DEF Is, None
  <2> QED
    BY <1>1, <2>1, <2>2, <2>3 DEF DenotesModel, InFields
<1>2. CASE v # None
  <2>1. Is(v, "dict")
    BY <1>2, RaiseIs DEF DecodeModel, Raised, Is
  <2>2. r = EveryOf(fields, Model(class, fields))
    BY <1>2, <2>1 DEF DecodeModel
  <2>3. r = Model(class, fields) /\ \A f \in DOMAIN fields : ~Raised(fields[f])
    <3>1. ~Raised(r)
      OBVIOUS
    <3> HIDE DEF fields, r
    <3> QED
      BY <2>2, <3>1, EveryOfIs
  <2>4. ASSUME NEW f \in DOMAIN Class[class]
        PROVE  /\ fields[f] \in ReadValue
               /\ \A type : Class[class][f] = Optional(type) => Holds(fields[f], type)
               /\ DenotesField(Get(v, f), fields[f])
    <3>1. PICK type \in FieldTypes : Class[class][f] = Optional(type)
      BY ResponsesAreTyped DEF IsTyped, FieldTypes
    <3>2. \A t : Class[class][f] = Optional(t) => t = type
      <4> SUFFICES ASSUME NEW t, Class[class][f] = Optional(t) PROVE t = type
        OBVIOUS
      <4>1. Optional(t) = Optional(type)
        BY <3>1
      <4> QED
        BY <4>1 DEF Optional
    <3>3. CASE Key(f) \in DOMAIN v.dict
      <4>1. v.dict[Key(f)] \in JsonValue /\ Get(v, f) = v.dict[Key(f)]
        BY <2>1, <3>3, ObjectHolds DEF Get
      <4>2. fields[f] = DecodeField(v.dict[Key(f)], Optional(type)) /\ ~Raised(fields[f])
        BY <2>3, <3>1, <3>3
      <4> HIDE DEF fields
      <4> QED
        BY <3>1, <3>2, <4>1, <4>2, FieldBelieved
    <3>4. CASE Key(f) \notin DOMAIN v.dict
      <4>1. fields[f] = None /\ Get(v, f) = None
        BY <3>4 DEF Get
      <4>2. None \in ReadScalar
        BY DEF ReadScalar
      <4> HIDE DEF fields
      <4> QED
        BY <4>1, <4>2, NoneDenotes, DenotesFieldScalar DEF ReadValue, Holds
    <3> QED
      BY <3>3, <3>4
  <2>5. DOMAIN fields = DOMAIN Class[class]
    OBVIOUS
  <2> HIDE DEF fields, r
  <2>6. IsRead(r, class)
    BY <2>3, <2>4, <2>5, ModelIs DEF IsRead
  <2>7. DenotesModel(v, r)
    BY <2>1, <2>3, <2>4, <2>5, ModelIs DEF DenotesModel, InFields, Is
  <2> QED
    BY <2>6, <2>7 DEF r
<1> QED
  BY <1>1, <1>2

(* The data of a list of objects, if it is one. *)
IsObjects(v) ==
    \/ v \in JsonValue
    \/ v = List(v.list) /\ \E S : v.list \in Seq(S) /\ \A o \in S : IsObject(o)

(* A list of models that was read. *)
IsReadList(r, class) ==
    /\ r = List(r.list)
    /\ \E S : r.list \in Seq(S) /\ \A o \in S : o = None \/ IsRead(o, class)

LEMMA FlatObjects == \A o \in JsonFlat : IsObject(o)
BY DEF IsObject, JsonValue

LEMMA ListHolds ==
    ASSUME NEW v, IsObjects(v), Is(v, "list")
    PROVE  v = List(v.list) /\ \E S : v.list \in Seq(S) /\ \A o \in S : IsObject(o)
<1>1. CASE v \in JsonValue
  <2>1. v \in [list : Seq(JsonFlat)]
    BY <1>1 DEF JsonValue, JsonFlat, JsonScalar, Numbers, Is, None, NotANumber, Dict
  <2>2. v = List(v.list) /\ v.list \in Seq(JsonFlat)
    BY <2>1 DEF List
  <2> QED
    BY <2>2, FlatObjects
<1> QED
  BY <1>1 DEF IsObjects

LEMMA NoneDenotesModels == DenotesModel(None, None) /\ DenotesModels(None, None) /\ Denotes(None, None)
<1>1. ~Is(None, "model") /\ ~Is(None, "list")
  BY DEF Is, None
<1>2. DenotesField(None, None)
  BY <1>1, NoneDenotes DEF DenotesField, InItems
<1>3. DenotesModel(None, None)
  BY <1>1, <1>2 DEF DenotesModel, InFields
<1>4. DenotesModels(None, None)
  BY <1>1, <1>3 DEF DenotesModels, InItems
<1> QED
  BY <1>1, <1>3, <1>4 DEF Denotes, InFields

LEMMA ModelsBelieved ==
    ASSUME NEW v, IsObjects(v), NEW class \in Responses, ~Raised(DecodeModels(v, class))
    PROVE  /\ DecodeModels(v, class) = None \/ IsReadList(DecodeModels(v, class), class)
           /\ DenotesModels(v, DecodeModels(v, class))
<1> DEFINE r == DecodeModels(v, class)
           read == [i \in DOMAIN v.list |-> DecodeModel(v.list[i], class)]
           n == Len(v.list)
<1>1. CASE v = None
  <2>1. r = None
    BY <1>1 DEF DecodeModels
  <2> QED
    BY <1>1, <2>1, NoneDenotesModels
<1>2. CASE v # None
  <2>1. Is(v, "list") /\ r = AllOf(read)
    BY <1>2, RaiseIs DEF DecodeModels, Raised, Is
  <2>2. v = List(v.list)
    BY <2>1, ListHolds
  <2>3. PICK S : v.list \in Seq(S) /\ \A o \in S : IsObject(o)
    BY <2>1, ListHolds
  <2>4. n \in Nat /\ DOMAIN v.list = 1..n
    BY <2>3
  <2>5. r = List(read) /\ \A i \in 1..n : ~Raised(read[i])
    <3>1. DOMAIN read = 1..n
      BY <2>4
    <3>2. ~Raised(r)
      OBVIOUS
    <3> HIDE DEF read, n, r
    <3> QED
      BY <2>1, <2>4, <3>1, <3>2, AllOfIs
  <2>6. ASSUME NEW i \in 1..n
        PROVE  (read[i] = None \/ IsRead(read[i], class)) /\ DenotesModel(v.list[i], read[i])
    <3>1. IsObject(v.list[i])
      BY <2>3, <2>4
    <3>2. read[i] = DecodeModel(v.list[i], class)
      BY <2>4
    <3> HIDE DEF read
    <3> QED
      BY <2>5, <3>1, <3>2, ModelBelieved
  <2> DEFINE models == {read[i] : i \in 1..n}
  <2>7. read \in Seq(models) /\ Len(read) = n
    BY <2>4
  <2>8. \A o \in models : o = None \/ IsRead(o, class)
    BY <2>6
  <2> HIDE DEF read, models, r
  <2>9. IsReadList(r, class)
    BY <2>5, <2>7, <2>8, ListIs DEF IsReadList
  <2>10. DenotesModels(v, r)
    BY <2>1, <2>4, <2>5, <2>6, <2>7, ListIs DEF DenotesModels, InItems, Is
  <2> QED
    BY <2>9, <2>10 DEF r
<1> QED
  BY <1>1, <1>2

(* Scalars, and lists of them, denote at every depth what they denote. *)
LEMMA DenotesDeeper ==
    ASSUME NEW json, NEW r \in ReadValue, DenotesField(json, r)
    PROVE  DenotesModel(json, r) /\ DenotesModels(json, r) /\ Denotes(json, r)
<1>1. ASSUME NEW j, NEW x \in ReadScalar, DenotesScalar(j, x)
      PROVE  DenotesModel(j, x)
  BY <1>1, ReadKinds DEF DenotesModel, InFields, DenotesField, InItems
<1>2. CASE r \in ReadScalar
  <2>1. ~Is(r, "list") /\ ~Is(r, "model")
    BY <1>2, ReadKinds
  <2>2. DenotesModel(json, r)
    BY <2>1 DEF DenotesModel, InFields
  <2>3. DenotesModels(json, r)
    BY <2>1, <2>2 DEF DenotesModels, InItems
  <2> QED
    BY <2>1, <2>2, <2>3 DEF Denotes, InFields
<1>3. CASE r \in [list : Seq(ReadScalar)]
  <2>1. Is(r, "list") /\ ~Is(r, "model") /\ r.list \in Seq(ReadScalar)
    BY <1>3 DEF Is
  <2>2. /\ Is(json, "list") /\ Len(json.list) = Len(r.list)
        /\ \A i \in DOMAIN r.list : DenotesScalar(json.list[i], r.list[i])
    BY <2>1 DEF DenotesField, InItems
  <2>3. \A i \in DOMAIN r.list : r.list[i] \in ReadScalar
    BY <2>1
  <2>4. DenotesModels(json, r)
    BY <1>1, <2>1, <2>2, <2>3 DEF DenotesModels, InItems
  <2>5. DenotesModel(json, r)
    BY <2>1 DEF DenotesModel, InFields
  <2> QED
    BY <2>1, <2>4, <2>5 DEF Denotes, InFields
<1> QED
  BY <1>2, <1>3 DEF ReadValue

LEMMA ModelDenotes ==
    ASSUME NEW json, NEW r, NEW class, IsRead(r, class), DenotesModel(json, r)
    PROVE  Denotes(json, r)
<1>1. Is(r, "model")
  BY DEF IsRead, Is
<1>2. Is(json, "dict") /\ \A f \in DOMAIN r.model : DenotesField(Get(json, f), r.model[f])
  BY <1>1 DEF DenotesModel, InFields
<1>3. \A f \in DOMAIN r.model : DenotesModels(Get(json, f), r.model[f])
  BY <1>2, DenotesDeeper DEF IsRead
<1> QED
  BY <1>1, <1>2, <1>3 DEF Denotes, InFields

(* The data of a page, if it is one. *)
IsPageData(v) ==
    \/ v \in JsonValue
    \/ DOMAIN v = {"dict"} /\ IsObjects(Get(v, "list")) /\ Get(v, "total") \in JsonValue

IsReadPage(r, class) ==
    /\ DOMAIN r = {"class", "model"} /\ r.class = "Page"
    /\ r.model["list"] = None \/ IsReadList(r.model["list"], class)

LEMMA PageHolds ==
    ASSUME NEW v, IsPageData(v), Is(v, "dict")
    PROVE  IsObjects(Get(v, "list")) /\ Get(v, "total") \in JsonValue
BY GetIs DEF IsPageData, IsObjects, IsObject

LEMMA PageBelieved ==
    ASSUME NEW v, IsPageData(v), NEW class \in Responses, ~Raised(DecodePage(v, class))
    PROVE  /\ \/ v = None /\ DecodePage(v, class) = None
              \/ /\ v # None /\ Is(v, "dict") /\ IsReadPage(DecodePage(v, class), class)
                 /\ DenotesModels(Get(v, "list"), DecodePage(v, class).model["list"])
           /\ Denotes(v, DecodePage(v, class))
<1> DEFINE r == DecodePage(v, class)
           items == DecodeModels(Get(v, "list"), class)
           total == DecodeScalar(Get(v, "total"), Long)
<1>1. CASE v = None
  <2>1. r = None
    BY <1>1 DEF DecodePage
  <2> QED
    BY <1>1, <2>1, NoneDenotesModels
<1>2. CASE v # None
  <2>1. Is(v, "dict")
    BY <1>2, RaiseIs DEF DecodePage, Raised, Is
  <2>2. ~Raised(items) /\ ~Raised(total) /\ r = Model("Page", [list |-> items, total |-> total])
    BY <1>2, <2>1 DEF DecodePage
  <2>3. IsObjects(Get(v, "list")) /\ Get(v, "total") \in JsonValue
    BY <2>1, PageHolds
  <2>4. (items = None \/ IsReadList(items, class)) /\ DenotesModels(Get(v, "list"), items)
    BY <2>2, <2>3, ModelsBelieved
  <2>5. DenotesModels(Get(v, "total"), total)
    <3>1. Long \in ScalarTypes
      BY DEF ScalarTypes, Annotation
    <3>2. total \in ReadScalar /\ DenotesScalar(Get(v, "total"), total)
      BY <2>2, <2>3, <3>1, ScalarBelieved
    <3> QED
      BY <3>2, DenotesFieldScalar, DenotesDeeper DEF ReadValue
  <2> HIDE DEF items, total, r
  <2>6. /\ DOMAIN r = {"class", "model"} /\ r.class = "Page"
        /\ DOMAIN r.model = {"list", "total"} /\ r.model["list"] = items /\ r.model["total"] = total
    BY <2>2, ModelIs
  <2>7. IsReadPage(r, class)
    BY <2>4, <2>6 DEF IsReadPage
  <2>8. Denotes(v, r)
    BY <2>1, <2>4, <2>5, <2>6 DEF Denotes, InFields, Is
  <2> QED
    BY <1>2, <2>1, <2>4, <2>6, <2>7, <2>8 DEF r
<1> QED
  BY <1>1, <1>2

----------------------------------------------------------------------------
(* Answers: what a method returns is what the data say.                    *)
(* The data a method's answer may have, and what comes of it. *)
IsAnswer(d) ==
    CASE Endpoint[method].gives = "model" -> IsObject(d)
      [] Endpoint[method].gives = "list" -> IsObjects(d)
      [] Endpoint[method].gives \in {"page", "pageEx", "first"} -> IsPageData(d)
      [] Endpoint[method].gives \in {"long", "bool", "None"} -> d \in JsonValue

IsResult(r) ==
    LET class == Endpoint[method].class
    IN  CASE Endpoint[method].gives \in {"model", "first"} -> r = None \/ IsRead(r, class)
          [] Endpoint[method].gives = "list" -> r = None \/ IsReadList(r, class)
          [] Endpoint[method].gives \in {"page", "pageEx"} -> r = None \/ IsReadPage(r, class)
          [] Endpoint[method].gives = "long" -> r \in {None} \cup [int : LongRange]
          [] Endpoint[method].gives = "bool" -> r \in [bool : BOOLEAN]
          [] Endpoint[method].gives = "None" -> r = None

LEMMA BoolBelieved ==
    ASSUME NEW d \in JsonValue, ~Raised(DecodeBool(d))
    PROVE  /\ DecodeBool(d) \in [bool : BOOLEAN]
           /\ Denotes(d, DecodeBool(d)) \/ (d = None /\ DecodeBool(d) = Bool(FALSE))
<1>1. CASE d = None
  BY <1>1 DEF DecodeBool, Bool
<1>2. CASE d # None
  <2>1. DecodeBool(d) = d /\ Is(d, "bool")
    BY <1>2, RaiseIs DEF DecodeBool, Raised, Is
  <2>2. d \in [bool : BOOLEAN]
    BY <2>1 DEF JsonValue, JsonFlat, JsonScalar, Numbers, Is, None, NotANumber, Dict
  <2>3. /\ ~Is(d, "list") /\ ~Is(d, "model") /\ ~Is(d, "int") /\ ~Is(d, "decimal")
        /\ ~Is(d, "datetime") /\ ~Is(d, "midnight") /\ ~Is(d, "date")
    BY <2>2 DEF Is
  <2>4. DenotesScalar(d, d)
    BY <2>3 DEF DenotesScalar
  <2>5. DenotesModel(d, d)
    BY <2>3, <2>4 DEF DenotesModel, InFields, DenotesField, InItems
  <2>6. Denotes(d, d)
    BY <2>3, <2>5 DEF Denotes, InFields, DenotesModels, InItems
  <2> QED
    BY <2>1, <2>2, <2>6
<1> QED
  BY <1>1, <1>2

(* operation_record, of a page that was read. *)
LEMMA FirstBelieved ==
    ASSUME NEW d, IsPageData(d), NEW class \in Responses,
           ~Raised(First(DecodePage(d, class))), d # None,
           NEW said, said = LET items == Get(d, "list")
                            IN  IF items \in {None, List(<<>>)} THEN None ELSE items.list[1]
    PROVE  LET r == First(DecodePage(d, class))
           IN  (r = None \/ IsRead(r, class)) /\ Denotes(said, r)
<1> DEFINE page == DecodePage(d, class)
           items == Get(d, "list")
           models == page.model["list"]
<1>1. ~Raised(page)
  BY DEF First
<1>2. /\ Is(d, "dict") /\ IsReadPage(page, class) /\ DenotesModels(items, models)
  BY <1>1, PageBelieved
<1>3. DOMAIN page = {"class", "model"} /\ page # None
  BY <1>2 DEF IsReadPage, None
<1>4. First(page) = IF models \in {None, List(<<>>)} THEN None ELSE models.list[1]
  BY <1>1, <1>3 DEF First
<1>5. IsObjects(items)
  BY <1>2, PageHolds
<1> HIDE DEF page, items, models
<1>6. CASE models = None
  <2>1. items = None
    <3>1. ~Is(None, "list") /\ ~Is(None, "model")
      BY DEF Is, None
    <3>2. DenotesScalar(items, None)
      BY <1>2, <1>6, <3>1 DEF DenotesModels, InItems, DenotesModel, InFields, DenotesField
    <3> QED
      BY <3>2 DEF DenotesScalar, Is, None
  <2> QED
    BY <1>4, <1>6, <2>1, NoneDenotesModels DEF page, items
<1>7. CASE models # None
  <2>1. IsReadList(models, class)
    BY <1>2, <1>7 DEF IsReadPage, models
  <2>2. PICK S : models.list \in Seq(S) /\ \A o \in S : o = None \/ IsRead(o, class)
    BY <2>1 DEF IsReadList
  <2>3. models = List(models.list) /\ Is(models, "list")
    BY <2>1, ListIs DEF IsReadList, Is
  <2>4. /\ Is(items, "list") /\ Len(items.list) = Len(models.list)
        /\ \A i \in DOMAIN models.list : DenotesModel(items.list[i], models.list[i])
    BY <1>2, <2>3 DEF DenotesModels, InItems
  <2>5. PICK T : items.list \in Seq(T)
    BY <1>5, <2>4, ListHolds
  <2>6. items = List(items.list)
    BY <1>5, <2>4, ListHolds
  <2>7. items # None
    BY <2>4 DEF Is, None
  <2>8. CASE models.list = <<>>
    <3>1. items.list = <<>>
      BY <2>4, <2>5, <2>8
    <3>2. items = List(<<>>) /\ models = List(<<>>)
      BY <2>3, <2>6, <2>8, <3>1
    <3> QED
      BY <1>4, <3>2, NoneDenotesModels DEF page, items
  <2>9. CASE models.list # <<>>
    <3>1. 1 \in DOMAIN models.list
      BY <2>2, <2>9
    <3>2. items.list # <<>>
      BY <2>2, <2>4, <2>5, <2>9
    <3>3. models # List(<<>>) /\ items # List(<<>>)
      BY <2>9, <3>2, ListIs
    <3>4. First(page) = models.list[1] /\ said = items.list[1]
      BY <1>4, <1>7, <2>7, <3>3 DEF items
    <3>5. First(page) = None \/ IsRead(First(page), class)
      BY <2>2, <3>1, <3>4
    <3>6. DenotesModel(said, First(page))
      BY <2>4, <3>1, <3>4
    <3>7. Denotes(said, First(page))
      <4>1. CASE First(page) = None
        <5>1. ~Is(None, "list") /\ ~Is(None, "model")
          BY DEF Is, None
        <5>2. DenotesField(said, None)
          BY <3>6, <4>1, <5>1 DEF DenotesModel, InFields
        <5> QED
          BY <4>1, <5>2, DenotesDeeper DEF ReadValue, ReadScalar
      <4>2. CASE First(page) # None
        BY <3>5, <3>6, <4>2, ModelDenotes
      <4> QED
        BY <4>1, <4>2
    <3> QED
      BY <3>5, <3>7 DEF page
  <2> QED
    BY <2>8, <2>9
<1> QED
  BY <1>6, <1>7

LEMMA DecodedBelieved ==
    ASSUME method \in DOMAIN Endpoint, IsAnswer(data), ~Raised(Decoded(data))
    PROVE  /\ IsResult(Decoded(data))
           /\ Endpoint[method].gives # "None" =>
                 \/ Denotes(Said, Decoded(data))
                 \/ Endpoint[method].gives = "bool" /\ data = None /\ Decoded(data) = Bool(FALSE)
<1> DEFINE gives == Endpoint[method].gives
           class == Endpoint[method].class
<1>1. gives \in Shaped \cup {"long", "bool", "None"} /\ (gives \in Shaped => class \in Responses)
  BY EndpointsAreTyped DEF IsMethod
<1>2. gives # "first" => Said = data
  BY DEF Said
<1>3. CASE gives = "model"
  <2>1. Decoded(data) = DecodeModel(data, class) /\ IsObject(data)
    BY <1>3 DEF Decoded, IsAnswer
  <2>2. /\ Decoded(data) = None \/ IsRead(Decoded(data), class)
        /\ DenotesModel(data, Decoded(data))
    BY <1>1, <1>3, <2>1, ModelBelieved DEF Shaped
  <2>3. Denotes(data, Decoded(data))
    <3>1. CASE Decoded(data) = None
      <4>1. ~Is(None, "list") /\ ~Is(None, "model")
        BY DEF Is, None
      <4>2. DenotesField(data, None)
        BY <2>2, <3>1, <4>1 DEF DenotesModel, InFields
      <4> QED
        BY <3>1, <4>2, DenotesDeeper DEF ReadValue, ReadScalar
    <3>2. CASE Decoded(data) # None
      BY <2>2, <3>2, ModelDenotes
    <3> QED
      BY <3>1, <3>2
  <2> QED
    BY <1>2, <1>3, <2>2, <2>3 DEF IsResult
<1>4. CASE gives = "list"
  <2>1. Decoded(data) = DecodeModels(data, class) /\ IsObjects(data)
    BY <1>4 DEF Decoded, IsAnswer
  <2>2. /\ Decoded(data) = None \/ IsReadList(Decoded(data), class)
        /\ DenotesModels(data, Decoded(data))
    BY <1>1, <1>4, <2>1, ModelsBelieved DEF Shaped
  <2>3. ~Is(Decoded(data), "model")
    BY <2>2, ListIs DEF IsReadList, Is, None
  <2>4. Denotes(data, Decoded(data))
    BY <2>2, <2>3 DEF Denotes, InFields
  <2> QED
    BY <1>2, <1>4, <2>2, <2>4 DEF IsResult
<1>5. CASE gives \in {"page", "pageEx"}
  <2>1. Decoded(data) = DecodePage(data, class) /\ IsPageData(data)
    BY <1>5 DEF Decoded, IsAnswer
  <2>2. /\ Decoded(data) = None \/ IsReadPage(Decoded(data), class)
        /\ Denotes(data, Decoded(data))
    BY <1>1, <1>5, <2>1, PageBelieved DEF Shaped
  <2> QED
    BY <1>2, <1>5, <2>2 DEF IsResult
<1>6. CASE gives = "first"
  <2>1. Decoded(data) = First(DecodePage(data, class)) /\ IsPageData(data)
    BY <1>6 DEF Decoded, IsAnswer
  <2>2. CASE data = None
    <3>1. Decoded(data) = None
      BY <2>1, <2>2 DEF DecodePage, First
    <3>2. Said = None
      BY <1>6, <2>2 DEF Said
    <3> QED
      BY <1>6, <3>1, <3>2, NoneDenotesModels DEF IsResult
  <2>3. CASE data # None
    <3>1. Said = LET items == Get(data, "list")
                 IN  IF items \in {None, List(<<>>)} THEN None ELSE items.list[1]
      BY <1>6, <2>3 DEF Said
    <3>2. (Decoded(data) = None \/ IsRead(Decoded(data), class)) /\ Denotes(Said, Decoded(data))
      BY <1>1, <1>6, <2>1, <2>3, <3>1, FirstBelieved DEF Shaped
    <3> QED
      BY <1>6, <3>2 DEF IsResult
  <2> QED
    BY <2>2, <2>3
<1>7. CASE gives = "long"
  <2>1. Decoded(data) = DecodeScalar(data, Long) /\ data \in JsonValue
    BY <1>7 DEF Decoded, IsAnswer
  <2>2. Long \in ScalarTypes
    BY DEF ScalarTypes, Annotation
  <2>3. Decoded(data) \in ReadScalar /\ DenotesScalar(data, Decoded(data))
    BY <2>1, <2>2, ScalarBelieved
  <2>4. Denotes(data, Decoded(data))
    BY <2>3, DenotesFieldScalar, DenotesDeeper DEF ReadValue
  <2>5. Decoded(data) \in {None} \cup [int : LongRange]
    BY <2>1, LongIsLong
  <2> QED
    BY <1>2, <1>7, <2>4, <2>5 DEF IsResult
<1>8. CASE gives = "bool"
  <2>1. Decoded(data) = DecodeBool(data) /\ data \in JsonValue
    BY <1>8 DEF Decoded, IsAnswer
  <2>2. /\ Decoded(data) \in [bool : BOOLEAN]
        /\ Denotes(data, Decoded(data)) \/ (data = None /\ Decoded(data) = Bool(FALSE))
    BY <2>1, BoolBelieved
  <2> QED
    BY <1>2, <1>8, <2>2 DEF IsResult
<1>9. CASE gives = "None"
  BY <1>9 DEF Decoded, IsResult
<1> QED
  BY <1>1, <1>3, <1>4, <1>5, <1>6, <1>7, <1>8, <1>9 DEF Shaped

LEMMA NoneIsData == None \in JsonValue
BY DEF JsonValue, JsonFlat, JsonScalar

LEMMA InstantsTyped ==
    /\ Instants \subseteq Int
    /\ \A s \in Seconds, u \in Units : Integer(s * u) \in [int : Int]
<1>1. \A s \in Seconds, u \in Units : s * u \in Int
  BY ScalarAssumption DEF Seconds, Units
<1>2. MillisFrom * Thousand \in Int /\ MillisFrom * (Thousand * Thousand) - 1 \in Int
  BY ScalarAssumption
<1> QED
  BY <1>1, <1>2 DEF Instants, Integer

LEMMA Widen ==
    /\ \A S : S \subseteq Int => [int : S] \subseteq JsonValue
    /\ \A S, T : S \subseteq Spellings /\ T \subseteq Int => [str : S, n : T] \subseteq JsonValue
    /\ \A S : S \subseteq JsonFlat => [list : Seq(S)] \subseteq JsonValue
<1>1. ASSUME NEW S, S \subseteq Int
      PROVE  [int : S] \subseteq JsonValue
  <2>1. [int : S] \subseteq [int : Int]
    BY <1>1
  <2> QED
    BY <2>1 DEF JsonValue, JsonFlat, JsonScalar, Numbers
<1>2. ASSUME NEW S, NEW T, S \subseteq Spellings, T \subseteq Int
      PROVE  [str : S, n : T] \subseteq JsonValue
  <2>1. [str : S, n : T] \subseteq [str : Spellings, n : Int]
    BY <1>2
  <2> QED
    BY <2>1 DEF JsonValue, JsonFlat, JsonScalar
<1>3. ASSUME NEW S, S \subseteq JsonFlat
      PROVE  [list : Seq(S)] \subseteq JsonValue
  <2>1. Seq(S) \subseteq Seq(JsonFlat)
    BY <1>3
  <2>2. [list : Seq(S)] \subseteq [list : Seq(JsonFlat)]
    BY <2>1
  <2> QED
    BY <2>2 DEF JsonValue
<1> QED
  BY <1>1, <1>2, <1>3

LEMMA ReadableIsJson == \A a \in ResponseKinds : Readable[a] \subseteq JsonValue
<1>1. Readable["long"] \subseteq JsonValue
  <2>1. LongRange \subseteq Int /\ {"integer"} \subseteq Spellings
    BY ScalarAssumption DEF LongRange, Spellings
  <2> QED
    BY <2>1, Widen DEF Readable
<1>2. WholeNumbers \subseteq Numbers /\ Numbers \subseteq JsonFlat /\ JsonFlat \subseteq JsonValue
  BY DEF WholeNumbers, JsonValue, JsonFlat, JsonScalar
<1>3. Readable["int"] \subseteq JsonValue
  BY <1>2 DEF Readable
<1>4. Readable["str"] \subseteq JsonValue
  BY Widen DEF Readable
<1>5. Readable["decimal"] \subseteq JsonValue
  <2>1. SpellsLong \cup {"loose", "real"} \subseteq Spellings
    BY DEF SpellsLong, Spellings
  <2> QED
    BY <1>2, <2>1, Widen DEF Readable
<1>6. Readable["datetime"] \subseteq JsonValue
  <2>1. [str : {"datetime"}, n : Instants] \subseteq JsonValue
    BY Widen, InstantsTyped DEF Spellings
  <2>2. [str : {"date", "midnight"}, n : Int] \subseteq JsonValue
    BY Widen DEF Spellings
  <2>3. \A s \in Seconds, u \in Units : Integer(s * u) \in JsonValue
    BY <1>2, InstantsTyped DEF Numbers
  <2>4. Epochs \subseteq JsonValue
    BY <2>3 DEF Epochs
  <2> QED
    BY <2>1, <2>2, <2>4 DEF Readable
<1>7. Readable["date"] \subseteq JsonValue
  <2>1. [list : Seq(WholeNumbers)] \subseteq JsonValue
    BY <1>2, Widen
  <2>2. [str : {"date"}, n : Int] \subseteq JsonValue
    BY Widen DEF Spellings
  <2> QED
    BY <2>1, <2>2 DEF Readable
<1>8. Readable["strs"] \subseteq JsonValue
  <2>1. {None} \cup [str : Spellings, n : Int] \subseteq JsonFlat
    BY DEF JsonFlat, JsonScalar
  <2> QED
    BY <2>1, Widen DEF Readable
<1> QED
  BY <1>1, <1>3, <1>4, <1>5, <1>6, <1>7, <1>8 DEF ResponseKinds

LEMMA JsonIsAll ==
    ASSUME NEW d \in JsonValue
    PROVE  IsObject(d) /\ IsObjects(d) /\ IsPageData(d)
BY DEF IsObject, IsObjects, IsPageData

(* One value for a field, in an object, a list and a page. *)
LEMMA OneField ==
    ASSUME NEW f, NEW v \in JsonValue, NEW o, o = Dict([k \in {Key(f)} |-> v])
    PROVE  IsObject(o) /\ IsObjects(List(<<o>>))
<1>1. IsObject(o)
  BY DictIs DEF IsObject
<1>2. <<o>> \in Seq({o})
  OBVIOUS
<1>3. IsObjects(List(<<o>>))
  <2> DEFINE s == <<o>>
  <2> HIDE DEF s
  <2>1. List(s) = List(List(s).list) /\ List(s).list \in Seq({o})
    BY <1>2, ListIs DEF s
  <2> QED
    BY <1>1, <2>1 DEF IsObjects, s
<1> QED
  BY <1>1, <1>3

LEMMA PageIs ==
    ASSUME NEW list, NEW total, IsObjects(list), total \in JsonValue
    PROVE  IsPageData(Page(list, total))
<1> DEFINE p == Page(list, total)
<1>1. Key("list") # Key("total")
  BY KeysDiffer
<1>2. DOMAIN p = {"dict"} /\ DOMAIN p.dict = {Key("list"), Key("total")}
      /\ p.dict[Key("list")] = list /\ p.dict[Key("total")] = total
  BY <1>1, DictIs DEF Page
<1> HIDE DEF p
<1>3. Get(p, "list") = list /\ Get(p, "total") = total
  BY <1>2 DEF Get
<1> QED
  BY <1>2, <1>3 DEF IsPageData, p

LEMMA BoolIsData == Bool(TRUE) \in JsonValue /\ Bool(FALSE) \in JsonValue
<1>1. \A b \in BOOLEAN : Bool(b) \in [bool : BOOLEAN]
  BY Zenon DEF Bool
<1>2. Bool(TRUE) \in [bool : BOOLEAN] /\ Bool(FALSE) \in [bool : BOOLEAN]
  BY <1>1, Zenon
<1> QED
  BY <1>2 DEF JsonValue, JsonFlat, JsonScalar

(* Whatever the server answers, of the shape the method expects or not. *)
LEMMA AnswersAreData == ASSUME method \in DOMAIN Endpoint PROVE \A d \in AllAnswers : IsAnswer(d)
<1> DEFINE gives == Endpoint[method].gives
           class == Endpoint[method].class
<1>1. gives \in Shaped \cup {"long", "bool", "None"} /\ (gives \in Shaped => class \in Responses)
  BY EndpointsAreTyped DEF IsMethod
<1>2. \A a \in ResponseKinds : AnyData(Optional(Annotation[a])) \subseteq JsonValue
  BY DataAssumption, ReadableIsJson, NoneIsData DEF AnyData
<1>3. AnyData(Long) \subseteq JsonValue
  BY DataAssumption, ReadableIsJson, NoneIsData DEF AnyData, ResponseKinds
<1>4. ASSUME gives \in Shaped, NEW o \in Objects(class, AnyData)
      PROVE  IsObject(o) /\ IsObjects(List(<<o>>))
  <2>1. PICK f \in DOMAIN Class[class] :
            \E v \in AnyData(Class[class][f]) : o = Dict([k \in {Key(f)} |-> v])
    BY <1>4 DEF Objects
  <2>2. PICK v \in AnyData(Class[class][f]) : o = Dict([k \in {Key(f)} |-> v])
    BY <2>1
  <2>3. \E a \in ResponseKinds : Class[class][f] = Optional(Annotation[a])
    BY <1>1, <1>4, ResponsesAreTyped DEF IsTyped
  <2>4. v \in JsonValue
    BY <1>2, <2>2, <2>3
  <2> QED
    BY <2>2, <2>4, OneField
<1>5. ASSUME NEW d \in JsonValue
      PROVE  IsAnswer(d)
  BY <1>1, JsonIsAll DEF IsAnswer, Shaped
<1>6. IsObjects(List(<<>>)) /\ IsObjects(List(<<None>>)) /\ IsObjects(None)
  <2>1. List(<<>>) \in JsonValue /\ List(<<None>>) \in JsonValue
    BY DEF List, JsonValue, JsonFlat, JsonScalar
  <2> QED
    BY <2>1, JsonIsAll, NoneIsData
<1>7. ASSUME NEW d \in Answers(AnyData)
      PROVE  IsAnswer(d)
  <2>1. CASE gives = "model"
    <3>1. d \in Objects(class, AnyData)
      BY <1>7, <2>1 DEF Answers
    <3> QED
      BY <1>4, <2>1, <3>1 DEF IsAnswer, Shaped
  <2>2. CASE gives = "long"
    <3>1. d \in AnyData(Long)
      BY <1>7, <2>2 DEF Answers
    <3> QED
      BY <1>3, <1>5, <3>1
  <2>3. CASE gives = "list"
    <3>1. d \in Lists(class, AnyData)
      BY <1>7, <2>3 DEF Answers
    <3>2. \/ \E o \in Objects(class, AnyData) : d = List(<<o>>)
          \/ d = List(<<>>) \/ d = List(<<None>>)
      BY <3>1 DEF Lists
    <3>3. IsObjects(d)
      BY <1>4, <1>6, <2>3, <3>2 DEF Shaped
    <3> QED
      BY <2>3, <3>3 DEF IsAnswer
  <2>4. CASE gives \in {"page", "pageEx", "first"}
    <3>1. d \in Pages(class, AnyData)
      BY <1>7, <2>4 DEF Answers
    <3>2. \/ \E o \in Objects(class, AnyData) : d = Page(List(<<o>>), Integer(1))
          \/ \E l \in {None, List(<<>>), List(<<None>>)}, n \in AnyData(Long) : d = Page(l, n)
      BY <3>1 DEF Pages
    <3>3. Integer(1) \in JsonValue
      BY DEF Integer, JsonValue, JsonFlat, JsonScalar, Numbers
    <3>4. IsPageData(d)
      BY <1>3, <1>4, <1>6, <2>4, <3>2, <3>3, PageIs DEF Shaped
    <3> QED
      BY <2>4, <3>4 DEF IsAnswer
  <2>5. CASE gives \in {"bool", "None"}
    <3>1. d \in Bools
      BY <1>7, <2>5 DEF Answers
    <3>2. d = Bool(TRUE) \/ d = Bool(FALSE)
      BY <3>1, Zenon DEF Bools
    <3>3. d \in JsonValue
      BY <3>2, BoolIsData
    <3> QED
      BY <1>5, <3>3
  <2> QED
    BY <1>1, <2>1, <2>2, <2>3, <2>4, <2>5 DEF Shaped
<1> QED
  BY <1>5, <1>7, NoneIsData, DataAssumption DEF AllAnswers

----------------------------------------------------------------------------
(* Writing: what is sent of an item, and how it arrives.                   *)
Errors == {Raise("ValueError"), Raise("TypeError")}

(* An item that was written, as it arrives. *)
ItemArrives(w, far) == IF far THEN AsDoubles(WithoutPlaces(w)) ELSE WithoutPlaces(w)

(* It says what the item said, and its type's reader takes it. *)
ItemArrived(v, x, type) ==
    /\ v \in ReadScalar /\ v # None /\ x # None /\ ~Is(x, "list")
    /\ DenotesScalar(x, v)
    /\ ~Raised(DecodeScalar(x, type))

LEMMA ErrorsAre == ASSUME NEW e \in Errors PROVE Raised(e)
BY RaiseIs DEF Errors, Raised, Is

LEMMA NoneRaised == ~Raised(None)
BY DEF None, Raised, Is

LEMMA WithoutNoneIs ==
    /\ \A type : WithoutNone(Optional(type)) = type
    /\ WithoutNone(Long) = Long /\ WithoutNone(Plain("datetime")) = Plain("datetime")
    /\ Long \notin {Plain("int"), Plain("str"), Plain("Decimal"), Plain("date"), Plain("datetime")}
BY DEF WithoutNone, Is, Long, Optional, Plain

(* to_wire, _serialize_java_long: a Long is written as a number, or as a   *)
(* string where a double would not hold it.                                *)
LEMMA LongIsWritten ==
    ASSUME NEW v \in JsonScalar, NEW forSignature \in BOOLEAN,
           NEW w, w = SerializeLong(v, forSignature)
    PROVE  \/ w \in Errors
           \/ /\ v \in [int : LongRange]
              /\ \/ w = v /\ (forSignature \/ Magnitude(v.int) < SafeBoundary)
                 \/ ~forSignature /\ w = Str("integer", v.int)
<1>1. CASE Is(v, "int") /\ v.int \in LongRange
  <2>1. v \in [int : LongRange]
    BY <1>1 DEF JsonScalar, Numbers, Is, None, NotANumber
  <2>2. v.int > -SafeBoundary /\ v.int < SafeBoundary => Magnitude(v.int) < SafeBoundary
    BY <1>1, ScalarAssumption DEF Magnitude, LongRange
  <2> QED
    BY <1>1, <2>1, <2>2 DEF SerializeLong
<1>2. CASE ~(Is(v, "int") /\ v.int \in LongRange)
  BY <1>2 DEF SerializeLong, Errors
<1> QED
  BY <1>1, <1>2

LEMMA SameFar == ASSUME NEW n, Magnitude(n) < SafeBoundary, n \in Int PROVE AsDouble(n) = n
BY ScalarAssumption DEF AsDouble, Magnitude

LEMMA PassesUnchanged ==
    /\ \A n, far : AsDouble(n) = n => ItemArrives(Integer(n), far) = Integer(n)
    /\ \A s, n, far : ItemArrives(Str(s, n), far) = Str(s, n)
<1>1. \A n : WithoutPlaces(Integer(n)) = Integer(n)
  BY DEF WithoutPlaces, Integer, Is
<1>2. \A s, n : WithoutPlaces(Str(s, n)) = Str(s, n)
  BY DEF WithoutPlaces, Str, Is
<1>3. \A n : AsDouble(n) = n => AsDoubles(Integer(n)) = Integer(n)
  BY IntegerIs DEF AsDoubles, Is
<1>4. \A s, n : AsDoubles(Str(s, n)) = Str(s, n)
  BY SpelledIs DEF AsDoubles, Is
<1> QED
  BY <1>1, <1>2, <1>3, <1>4 DEF ItemArrives

LEMMA LongArrives ==
    ASSUME NEW v \in JsonScalar, NEW w, w = SerializeLong(v, FALSE), w \notin Errors,
           NEW far \in BOOLEAN
    PROVE  ItemArrived(v, ItemArrives(w, far), Long)
<1>1. v \in [int : LongRange]
  BY LongIsWritten
<1>2. v = Integer(v.int) /\ v.int \in LongRange /\ v.int \in Int
  BY <1>1, ScalarAssumption DEF Integer, LongRange
<1>3. ItemArrives(w, far) \in {Integer(v.int), Str("integer", v.int)}
  <2>1. (w = v /\ Magnitude(v.int) < SafeBoundary) \/ w = Str("integer", v.int)
    BY LongIsWritten
  <2>2. Magnitude(v.int) < SafeBoundary => AsDouble(v.int) = v.int
    BY <1>2, SameFar
  <2> QED
    BY <1>2, <2>1, <2>2, PassesUnchanged
<1>4. ASSUME NEW x \in {Integer(v.int), Str("integer", v.int)}
      PROVE  ItemArrived(v, x, Long)
  <2>1. x # None /\ ~Is(x, "list") /\ v # None
    BY <1>2, IntegerIs, SpelledIs DEF Is, None
  <2>2. v \in ReadScalar
    BY <1>2, ScalarAssumption DEF ReadScalar, Integer
  <2>3. IsNumber(x) /\ Spelled(x) = 10 * v.int
    <3>1. ASSUME NEW n \in Int
          PROVE  IsNumber(Integer(n)) /\ Spelled(Integer(n)) = 10 * n
      BY IntegerIs, TenthsOfInteger DEF IsNumber, Spelled, Is
    <3>2. ASSUME NEW n \in Int
          PROVE  IsNumber(Str("integer", n)) /\ Spelled(Str("integer", n)) = 10 * n
      BY SpelledIs DEF IsNumber, Spelled, Is, Numeric
    <3> QED
      BY <1>2, <3>1, <3>2
  <2>4. DenotesScalar(x, v)
    BY <1>2, <2>3, IntegerIs, TenthsOfInteger DEF DenotesScalar, Is
  <2>5. DecodeScalar(x, Long) = v
    BY <1>2, <2>1, DecodeScalarIs, IntegerDecodes, SpelledDecodes
  <2> QED
    BY <1>2, <2>1, <2>2, <2>4, <2>5, IntegerIs DEF ItemArrived, Raised, Is
<1> QED
  BY <1>3, <1>4

LEMMA IntArrives ==
    ASSUME NEW v \in [int : Held], NEW far \in BOOLEAN
    PROVE  ItemArrived(v, ItemArrives(v, far), Plain("int"))
<1>1. v = Integer(v.int) /\ v.int \in Int /\ AsDouble(v.int) = v.int
  BY DEF Integer, Held
<1>2. ItemArrives(v, far) = v
  BY <1>1, PassesUnchanged
<1>3. v # None /\ ~Is(v, "list") /\ ~Is(v, "str") /\ Is(v, "int") /\ ~Raised(v)
      /\ ~Is(v, "decimal") /\ ~Is(v, "float")
  BY <1>1, IntegerIs DEF Is, None, Raised
<1>4. v \in ReadScalar /\ DenotesScalar(v, v)
  <2>1. v \in ReadScalar
    BY <1>1 DEF ReadScalar, Integer
  <2>2. DenotesScalar(v, v)
    BY <1>1, <1>3, IntegerIs DEF DenotesScalar, IsNumber, Spelled, Is
  <2> QED
    BY <2>1, <2>2
<1>5. DecodeScalar(v, Plain("int")) = v
  BY <1>3, DecodeScalarIs DEF DecodeIntegral
<1> QED
  BY <1>2, <1>3, <1>4, <1>5 DEF ItemArrived

LEMMA StrArrives ==
    ASSUME NEW v \in [str : Spellings, n : Int], NEW far \in BOOLEAN
    PROVE  ItemArrived(v, ItemArrives(v, far), Plain("str"))
<1>1. v = Str(v.str, v.n)
  BY DEF Str
<1>2. ItemArrives(v, far) = v
  BY <1>1, PassesUnchanged
<1>3. /\ v # None /\ ~Is(v, "list") /\ Is(v, "str") /\ ~Raised(v) /\ ~Is(v, "int")
      /\ ~Is(v, "decimal") /\ ~Is(v, "datetime") /\ ~Is(v, "midnight") /\ ~Is(v, "date")
  BY DEF Is, None, Raised
<1>4. v \in ReadScalar /\ DenotesScalar(v, v)
  BY <1>3 DEF ReadScalar, DenotesScalar
<1>5. DecodeScalar(v, Plain("str")) = v
  BY <1>3, DecodeScalarIs DEF DecodeStr
<1> QED
  BY <1>2, <1>3, <1>4, <1>5 DEF ItemArrived

LEMMA DecimalArrives ==
    ASSUME NEW v \in [decimal : Held, places : {0}] \cup [decimal : Int, places : {1}],
           NEW far \in BOOLEAN
    PROVE  ItemArrived(v, ItemArrives(v, far), Plain("Decimal"))
<1> DEFINE x == ItemArrives(v, far)
<1>1. v \in [decimal : Int, places : {0, 1}]
  BY DEF Held
<1>2. v \in ReadScalar /\ v # None
  BY <1>1 DEF ReadScalar, None
<1>3. \/ \E n \in Int : x = Integer(n) /\ 10 * n = Tenths(v)
      \/ x = v
  <2>1. CASE v.places = 0
    <3>1. WithoutPlaces(v) = Integer(v.decimal) /\ Tenths(v) = 10 * v.decimal
      BY <1>1, <2>1 DEF WithoutPlaces, Is, Tenths
    <3>2. v.decimal \in Int /\ AsDouble(v.decimal) = v.decimal
      BY <2>1 DEF Held
    <3>3. AsDoubles(Integer(v.decimal)) = Integer(v.decimal)
      BY <3>2, IntegerIs DEF AsDoubles, Is
    <3> QED
      BY <3>1, <3>2, <3>3 DEF ItemArrives
  <2>2. CASE v.places = 1
    <3>1. WithoutPlaces(v) = v /\ Tenths(v) \in Int
      BY <1>1, <2>2 DEF WithoutPlaces, Tenths, Is
    <3>2. AsDoubles(v) = IF Tenths(v) % 10 = 0 THEN Integer(Tenths(v) \div 10) ELSE v
      BY <1>1 DEF AsDoubles, Is
    <3> QED
      BY <3>1, <3>2, Whole DEF ItemArrives
  <2> QED
    BY <1>1, <2>1, <2>2
<1>4. x # None /\ ~Is(x, "list")
  BY <1>1, <1>3, IntegerIs DEF Is, None
<1>5. IsNumber(x) /\ Spelled(x) = Tenths(v)
  <2>1. ASSUME NEW n \in Int, x = Integer(n), 10 * n = Tenths(v)
        PROVE  IsNumber(x) /\ Spelled(x) = Tenths(v)
    BY <2>1, IntegerIs, TenthsOfInteger DEF IsNumber, Spelled, Is
  <2>2. ASSUME x = v
        PROVE  IsNumber(x) /\ Spelled(x) = Tenths(v)
    BY <1>1, <2>2 DEF IsNumber, Spelled, Is
  <2> QED
    BY <1>3, <2>1, <2>2
<1>6. DenotesScalar(x, v)
  BY <1>1, <1>5 DEF DenotesScalar, Is
<1>7. ~Raised(DecodeDecimal(x))
  <2>1. \A n : DecodeDecimal(Integer(n)) = Decimal(n, 0)
    BY IntegerIs DEF DecodeDecimal, Is
  <2>2. DecodeDecimal(v) = v
    BY <1>1 DEF DecodeDecimal, Is
  <2> QED
    BY <1>1, <1>3, <2>1, <2>2 DEF Raised, Is, Decimal
<1> QED
  BY <1>2, <1>4, <1>6, <1>7, DecodeScalarIs DEF ItemArrived

LEMMA DateArrives ==
    ASSUME NEW n \in Int, NEW far \in BOOLEAN
    PROVE  /\ ItemArrived(Date(n), ItemArrives(Str("date", n), far), Plain("date"))
           /\ ItemArrived(Datetime(n), ItemArrives(Str("datetime", n), far), Plain("datetime"))
           /\ ItemArrived(Midnight(n), ItemArrives(Str("midnight", n), far), Plain("datetime"))
<1>1. \A s : ItemArrives(Str(s, n), far) = Str(s, n)
  BY PassesUnchanged
<1>2. \A s : /\ Str(s, n) # None /\ ~Is(Str(s, n), "list") /\ ~Is(Str(s, n), "int")
             /\ ~Is(Str(s, n), "decimal") /\ ~Is(Str(s, n), "float")
             /\ Is(Str(s, n), "str") /\ Str(s, n).str = s /\ Str(s, n).n = n
  BY SpelledIs DEF Is, None
<1>3. DecodeDate(Str("date", n)) = Date(n)
  BY <1>2 DEF DecodeDate
<1>4. DecodeDatetime(Str("datetime", n)) = Datetime(n)
      /\ DecodeDatetime(Str("midnight", n)) = Midnight(n)
  BY <1>2 DEF DecodeDatetime
<1>5. /\ Date(n) \in ReadScalar /\ DOMAIN Date(n) = {"date"} /\ Date(n).date = n
      /\ Datetime(n) \in ReadScalar /\ DOMAIN Datetime(n) = {"datetime"} /\ Datetime(n).datetime = n
      /\ Midnight(n) \in ReadScalar /\ DOMAIN Midnight(n) = {"midnight"} /\ Midnight(n).midnight = n
  BY DEF ReadScalar, Date, Datetime, Midnight
<1>6. /\ DenotesScalar(Str("date", n), Date(n))
      /\ DenotesScalar(Str("datetime", n), Datetime(n))
      /\ DenotesScalar(Str("midnight", n), Midnight(n))
  BY <1>5 DEF DenotesScalar, Is
<1>7. ~Raised(Date(n)) /\ ~Raised(Datetime(n)) /\ ~Raised(Midnight(n))
      /\ Date(n) # None /\ Datetime(n) # None /\ Midnight(n) # None
  BY <1>5 DEF Raised, Is, None
<1> QED
  BY <1>1, <1>2, <1>3, <1>4, <1>5, <1>6, <1>7, DecodeScalarIs DEF ItemArrived

(* A field's value that was written, as it arrives. *)
FieldArrives(w, far) ==
    IF far THEN EachItem(EachItem(w, WithoutPlaces), AsDoubles) ELSE EachItem(w, WithoutPlaces)

FieldArrived(v, x, type) ==
    /\ v \in ReadValue /\ v # None /\ x # None
    /\ DenotesField(x, v)
    /\ ~Raised(DecodeField(x, Optional(type)))

(* An item, and a field's value, that is an error or arrives. *)
ItemGoes(v, w, forSignature, type) ==
    \/ w \in Errors
    \/ /\ ~Raised(w) /\ ~Is(w, "list")
       /\ ~forSignature => \A far \in BOOLEAN : ItemArrived(v, ItemArrives(w, far), type)

FieldGoes(v, w, forSignature, type) ==
    \/ w \in Errors
    \/ /\ ~Raised(w)
       /\ ~forSignature => \A far \in BOOLEAN : FieldArrived(v, FieldArrives(w, far), type)

LEMMA WithoutPlacesKeeps == ASSUME NEW w, ~Is(w, "list") PROVE ~Is(WithoutPlaces(w), "list")
BY IntegerIs DEF WithoutPlaces, Is

LEMMA ScalarGoes ==
    ASSUME NEW v, NEW w, NEW forSignature \in BOOLEAN, NEW type \in ScalarTypes,
           ItemGoes(v, w, forSignature, type)
    PROVE  FieldGoes(v, w, forSignature, type)
<1> SUFFICES ASSUME ~Raised(w), ~Is(w, "list"), ~forSignature, NEW far \in BOOLEAN,
                    ItemArrived(v, ItemArrives(w, far), type)
             PROVE  FieldArrived(v, FieldArrives(w, far), type)
  BY DEF ItemGoes, FieldGoes
<1> DEFINE x == ItemArrives(w, far)
<1>1. FieldArrives(w, far) = x
  BY WithoutPlacesKeeps DEF FieldArrives, ItemArrives, EachItem
<1>2. DecodeItems(x, type) = DecodeScalar(x, type)
  BY NotLists DEF DecodeItems
<1>3. DecodeField(x, Optional(type)) = Either(DecodeItems(x, type))
  BY OptionalIs DEF DecodeField, ItemArrived
<1>4. ~Raised(DecodeField(x, Optional(type)))
  BY <1>2, <1>3 DEF Either, ItemArrived
<1> HIDE DEF x
<1> QED
  BY <1>1, <1>4, DenotesFieldScalar DEF ItemArrived, FieldArrived, ReadValue, x

LEMMA ListGoes ==
    ASSUME NEW S, NEW v, v = List(v.list), v.list \in Seq(S),
           NEW type \in ScalarTypes, NEW forSignature \in BOOLEAN,
           \A s \in S : ItemGoes(s, ItemToWire(s, type, forSignature), forSignature, type)
    PROVE  FieldGoes(v, AllOf([i \in DOMAIN v.list |-> ItemToWire(v.list[i], type, forSignature)]),
                     forSignature, ListOf(type))
<1> DEFINE items == [i \in DOMAIN v.list |-> ItemToWire(v.list[i], type, forSignature)]
           n == Len(v.list)
           w == AllOf(items)
<1> SUFFICES FieldGoes(v, w, forSignature, ListOf(type))
  OBVIOUS
<1>1. n \in Nat /\ DOMAIN v.list = 1..n /\ DOMAIN items = 1..n
  OBVIOUS
<1>2. \A i \in 1..n : v.list[i] \in S /\ items[i] = ItemToWire(v.list[i], type, forSignature)
  OBVIOUS
<1>3. v = List(v.list) /\ DOMAIN v = {"list"}
  BY ListIs
<1>4. AllOf(items) = w
  OBVIOUS
<1> HIDE DEF items, n, w
<1>5. \A i \in 1..n : ItemGoes(v.list[i], items[i], forSignature, type)
  BY <1>2
<1>6. CASE \E i \in 1..n : Raised(items[i]) /\ w = items[i]
  BY <1>5, <1>6 DEF ItemGoes, FieldGoes
<1>7. CASE w = List(items) /\ \A i \in 1..n : ~Raised(items[i])
  <2>1. ~Raised(w)
    BY <1>7, ListIs DEF Raised, Is
  <2>2. ASSUME ~forSignature, NEW far \in BOOLEAN
        PROVE  FieldArrived(v, FieldArrives(w, far), ListOf(type))
    <3> DEFINE x == FieldArrives(w, far)
               got == [i \in 1..n |-> ItemArrives(items[i], far)]
               read == [i \in DOMAIN x.list |-> DecodeScalar(x.list[i], type)]
    <3>1. x = List(got)
      <4>1. EachItem(w, WithoutPlaces) = List([i \in 1..n |-> WithoutPlaces(items[i])])
        BY <1>1, <1>7, ListIs DEF EachItem, Is
      <4>2. EachItem(List([i \in 1..n |-> WithoutPlaces(items[i])]), AsDoubles)
              = List([i \in 1..n |-> AsDoubles(WithoutPlaces(items[i]))])
        <5> DEFINE t == [i \in 1..n |-> WithoutPlaces(items[i])]
        <5>1. EachItem(List(t), AsDoubles) = List([i \in DOMAIN t |-> AsDoubles(t[i])])
          <6> HIDE DEF t
          <6> QED
            BY ListIs DEF EachItem, Is
        <5>2. [i \in DOMAIN t |-> AsDoubles(t[i])] = [i \in 1..n |-> AsDoubles(WithoutPlaces(items[i]))]
          OBVIOUS
        <5> QED
          BY <5>1, <5>2
      <4>3. CASE far
        BY <4>1, <4>2, <4>3 DEF FieldArrives, ItemArrives
      <4>4. CASE ~far
        BY <4>1, <4>4 DEF FieldArrives, ItemArrives
      <4> QED
        BY <4>3, <4>4
    <3>2. \A i \in 1..n : ItemArrived(v.list[i], got[i], type)
      BY <1>5, <1>7, <2>2, ErrorsAre DEF ItemGoes
    <3>3. DOMAIN x = {"list"} /\ x.list = got /\ DOMAIN got = 1..n /\ Len(got) = n
      BY <1>1, <3>1, ListIs
    <3>4. v \in ReadValue /\ v # None
      <4>1. \A i \in 1..n : v.list[i] \in ReadScalar
        BY <3>2 DEF ItemArrived
      <4>2. v.list \in Seq(ReadScalar)
        <5> DEFINE copy == [i \in 1..n |-> v.list[i]]
        <5>1. copy \in Seq(ReadScalar)
          BY <1>1, <4>1
        <5>2. v.list = copy
          BY <1>1
        <5> QED
          BY <5>1, <5>2
      <4>3. v = List(v.list)
        BY <1>3
      <4>4. List(v.list) \in [list : Seq(ReadScalar)]
        BY <4>2 DEF List
      <4>5. v # None
        BY <1>3 DEF None
      <4> QED
        BY <4>3, <4>4, <4>5 DEF ReadValue
    <3> HIDE DEF x, got
    <3>5. DenotesField(x, v)
      BY <1>1, <1>3, <3>2, <3>3 DEF DenotesField, InItems, Is, ItemArrived, n
    <3>6. x # None
      BY <3>3 DEF None
    <3>7. ~Raised(DecodeField(x, Optional(ListOf(type))))
      <4>1. ListOf(type).listOf = type /\ Is(ListOf(type), "listOf")
        BY DEF ListOf, Is
      <4>2. DecodeItems(x, ListOf(type)) = AllOf(read)
        BY <3>3, <3>6, <4>1 DEF DecodeItems, Is
      <4>3. DOMAIN read = 1..n /\ \A i \in 1..n : ~Raised(read[i])
        BY <3>2, <3>3 DEF ItemArrived
      <4> HIDE DEF read
      <4>4. ~Raised(AllOf(read))
        BY <1>1, <4>3, AllOfEither, ListIs DEF Raised, Is
      <4> QED
        BY <3>6, <4>2, <4>4, OptionalIs DEF DecodeField, Either
    <3> QED
      BY <3>4, <3>5, <3>6, <3>7 DEF FieldArrived, x
  <2> QED
    BY <2>1, <2>2 DEF FieldGoes
<1> QED
  BY <1>1, <1>6, <1>7, <1>4, AllOfEither

----------------------------------------------------------------------------
(* Writing: fields and requests.                                           *)
LEMMA LongGoes ==
    ASSUME NEW v \in JsonScalar, v # None, NEW forSignature \in BOOLEAN,
           NEW type, WithoutNone(type) = Long
    PROVE  ItemGoes(v, ItemToWire(v, type, forSignature), forSignature, Long)
<1>1. ItemToWire(v, type, forSignature) = SerializeLong(v, forSignature)
  BY DEF ItemToWire
<1>2. CASE SerializeLong(v, forSignature) \in Errors
  BY <1>1, <1>2 DEF ItemGoes
<1>3. CASE SerializeLong(v, forSignature) \notin Errors
  <2>1. \/ SerializeLong(v, forSignature) = v /\ v \in [int : LongRange]
        \/ SerializeLong(v, forSignature) = Str("integer", v.int)
    BY <1>3, LongIsWritten
  <2>2. ~Raised(SerializeLong(v, forSignature)) /\ ~Is(SerializeLong(v, forSignature), "list")
    BY <2>1, SpelledIs DEF Raised, Is
  <2>3. ~forSignature => forSignature = FALSE
    OBVIOUS
  <2> QED
    BY <1>1, <1>3, <2>2, <2>3, LongArrives DEF ItemGoes
<1> QED
  BY <1>2, <1>3

(* What is no Long and no list is written as it is, dates as strings. *)
LEMMA PlainIsWritten ==
    ASSUME NEW v, v # None, NEW type, WithoutNone(type) # Long, NEW forSignature
    PROVE  /\ DOMAIN v \in {{"int"}, {"str", "n"}, {"decimal", "places"}} =>
                 ItemToWire(v, type, forSignature) = v
           /\ DOMAIN v = {"date"} => ItemToWire(v, type, forSignature) = Str("date", v.date)
           /\ DOMAIN v = {"datetime"} =>
                 ItemToWire(v, type, forSignature) = Str("datetime", v.datetime)
           /\ DOMAIN v = {"midnight"} =>
                 ItemToWire(v, type, forSignature) = Str("midnight", v.midnight)
           /\ DOMAIN v = {"float"} => ItemToWire(v, type, forSignature) = Raise("ValueError")
BY DEF ItemToWire, Is

LEMMA NotInLists ==
    /\ \A s, n : ~Raised(Str(s, n)) /\ ~Is(Str(s, n), "list")
    /\ \A v : DOMAIN v \in {{"int"}, {"str", "n"}, {"decimal", "places"}} =>
           ~Raised(v) /\ ~Is(v, "list") /\ v # None
    /\ \A v : DOMAIN v \in {{"date"}, {"datetime"}, {"midnight"}, {"float"}} =>
           ~Is(v, "list") /\ v # None
BY SpelledIs DEF Raised, Is, None

LEMMA IntGoes ==
    ASSUME NEW v \in [int : Held], NEW type, WithoutNone(type) = Plain("int"), NEW forSignature
    PROVE  ItemGoes(v, ItemToWire(v, type, forSignature), forSignature, Plain("int"))
<1>1. DOMAIN v \in {{"int"}, {"str", "n"}, {"decimal", "places"}}
  OBVIOUS
<1>2. ItemToWire(v, type, forSignature) = v
  BY <1>1, NotInLists, WithoutNoneIs, PlainIsWritten
<1> QED
  BY <1>1, <1>2, NotInLists, IntArrives DEF ItemGoes

LEMMA StrGoes ==
    ASSUME NEW v \in [str : Spellings, n : Int], NEW type, WithoutNone(type) = Plain("str"),
           NEW forSignature
    PROVE  ItemGoes(v, ItemToWire(v, type, forSignature), forSignature, Plain("str"))
<1>1. DOMAIN v \in {{"int"}, {"str", "n"}, {"decimal", "places"}}
  OBVIOUS
<1>2. ItemToWire(v, type, forSignature) = v
  BY <1>1, NotInLists, WithoutNoneIs, PlainIsWritten
<1> QED
  BY <1>1, <1>2, NotInLists, StrArrives DEF ItemGoes

LEMMA DecimalGoes ==
    ASSUME NEW v \in Given["decimal"], NEW type, WithoutNone(type) = Plain("Decimal"),
           NEW forSignature
    PROVE  v # None /\ ~Is(v, "list")
           /\ ItemGoes(v, ItemToWire(v, type, forSignature), forSignature, Plain("Decimal"))
<1>1. CASE v = NotANumber
  <2>1. DOMAIN v = {"float"}
    BY <1>1 DEF NotANumber
  <2>2. ItemToWire(v, type, forSignature) = Raise("ValueError")
    BY <2>1, NotInLists, WithoutNoneIs, PlainIsWritten
  <2> QED
    BY <2>1, <2>2, NotInLists DEF ItemGoes, Errors
<1>2. CASE v # NotANumber
  <2>1. v \in [decimal : Held, places : {0}] \cup [decimal : Int, places : {1}]
    BY <1>2 DEF Given
  <2>2. DOMAIN v \in {{"int"}, {"str", "n"}, {"decimal", "places"}}
    BY <2>1
  <2>3. ItemToWire(v, type, forSignature) = v
    BY <2>2, NotInLists, WithoutNoneIs, PlainIsWritten
  <2> QED
    BY <2>1, <2>2, <2>3, NotInLists, DecimalArrives DEF ItemGoes
<1> QED
  BY <1>1, <1>2

LEMMA DatesGo ==
    ASSUME NEW n \in Int, NEW type, NEW forSignature
    PROVE  /\ WithoutNone(type) = Plain("date") =>
                 ItemGoes(Date(n), ItemToWire(Date(n), type, forSignature), forSignature, Plain("date"))
           /\ WithoutNone(type) = Plain("datetime") =>
                 /\ ItemGoes(Datetime(n), ItemToWire(Datetime(n), type, forSignature), forSignature,
                             Plain("datetime"))
                 /\ ItemGoes(Midnight(n), ItemToWire(Midnight(n), type, forSignature), forSignature,
                             Plain("datetime"))
<1>1. /\ DOMAIN Date(n) = {"date"} /\ Date(n).date = n
      /\ DOMAIN Datetime(n) = {"datetime"} /\ Datetime(n).datetime = n
      /\ DOMAIN Midnight(n) = {"midnight"} /\ Midnight(n).midnight = n
  BY DEF Date, Datetime, Midnight
<1>2. Date(n) # None /\ Datetime(n) # None /\ Midnight(n) # None
  BY <1>1, NotInLists
<1>3. ASSUME WithoutNone(type) # Long
      PROVE  /\ ItemToWire(Date(n), type, forSignature) = Str("date", n)
             /\ ItemToWire(Datetime(n), type, forSignature) = Str("datetime", n)
             /\ ItemToWire(Midnight(n), type, forSignature) = Str("midnight", n)
  BY <1>1, <1>2, <1>3, PlainIsWritten
<1> QED
  BY <1>3, NotInLists, WithoutNoneIs, DateArrives DEF ItemGoes

LEMMA ListIsWritten ==
    ASSUME NEW v, Is(v, "list"), NEW item, NEW forSignature
    PROVE  FieldToWire(v, Optional(ListOf(item)), forSignature)
             = AllOf([i \in DOMAIN v.list |-> ItemToWire(v.list[i], item, forSignature)])
<1>1. WithoutNone(Optional(ListOf(item))) = ListOf(item) /\ ItemType(Optional(ListOf(item))) = item
      /\ ListOf(item) # Long
  BY WithoutNoneIs DEF ItemType, ListOf, Is, Long
<1> QED
  BY <1>1 DEF FieldToWire

(* transport.py, to_wire: a field's value is refused, or a typed receiver  *)
(* reads what it says, even if its numbers became doubles on the way.      *)
LEMMA FieldIsWritten ==
    ASSUME NEW a \in RequestKinds, NEW v \in Given[a], v # None, NEW forSignature \in BOOLEAN
    PROVE  FieldGoes(v, FieldToWire(v, Optional(Annotation[a]), forSignature), forSignature,
                     Annotation[a])
<1> DEFINE type == Annotation[a]
<1>1. WithoutNone(Optional(type)) = type
  BY WithoutNoneIs
<1>2. ASSUME ~Is(v, "list")
      PROVE  FieldToWire(v, Optional(type), forSignature) = ItemToWire(v, Optional(type), forSignature)
  BY <1>2 DEF FieldToWire
<1>3. CASE a = "long"
  <2>1. v \in JsonScalar /\ ~Is(v, "list") /\ type = Long /\ type \in ScalarTypes
    BY <1>3 DEF Given, JsonScalar, Numbers, Is, None, NotANumber, Annotation, ScalarTypes
  <2> QED
    BY <1>1, <1>2, <2>1, LongGoes, ScalarGoes
<1>4. CASE a = "int"
  <2>1. v \in [int : Held] /\ ~Is(v, "list") /\ type = Plain("int") /\ type \in ScalarTypes
    BY <1>4 DEF Given, Is, Annotation, ScalarTypes
  <2> QED
    BY <1>1, <1>2, <2>1, IntGoes, ScalarGoes
<1>5. CASE a = "str"
  <2>1. v \in [str : Spellings, n : Int] /\ ~Is(v, "list") /\ type = Plain("str") /\ type \in ScalarTypes
    BY <1>5 DEF Given, Is, Annotation, ScalarTypes
  <2> QED
    BY <1>1, <1>2, <2>1, StrGoes, ScalarGoes
<1>6. CASE a = "decimal"
  <2>1. v \in Given["decimal"] /\ type = Plain("Decimal") /\ type \in ScalarTypes
    BY <1>6 DEF Annotation, ScalarTypes
  <2> QED
    BY <1>1, <1>2, <2>1, DecimalGoes, ScalarGoes
<1>7. CASE a = "date"
  <2>1. v = Date(v.date) /\ v.date \in Int /\ ~Is(v, "list") /\ type = Plain("date") /\ type \in ScalarTypes
    BY <1>7 DEF Given, Is, Annotation, ScalarTypes, Date
  <2> QED
    BY <1>1, <1>2, <2>1, DatesGo, ScalarGoes
<1>8. CASE a = "longs"
  <2>1. /\ v = List(v.list) /\ v.list \in Seq([int : Int]) /\ Is(v, "list")
        /\ type = ListOf(Long) /\ Long \in ScalarTypes
    BY <1>8 DEF Given, Is, Annotation, ScalarTypes, List
  <2>2. \A s \in [int : Int] : s \in JsonScalar /\ s # None
    BY DEF JsonScalar, Numbers, None
  <2>3. \A s \in [int : Int] : ItemGoes(s, ItemToWire(s, Long, forSignature), forSignature, Long)
    BY <2>2, LongGoes, WithoutNoneIs
  <2>4. FieldToWire(v, Optional(type), forSignature)
          = AllOf([i \in DOMAIN v.list |-> ItemToWire(v.list[i], Long, forSignature)])
    BY <2>1, ListIsWritten
  <2>5. FieldGoes(v, AllOf([i \in DOMAIN v.list |-> ItemToWire(v.list[i], Long, forSignature)]),
                  forSignature, ListOf(Long))
    BY <2>1, <2>3, ListGoes
  <2> QED
    BY <2>1, <2>4, <2>5
<1>9. CASE a = "datetimes"
  <2> DEFINE S == [datetime : Int] \cup [midnight : Int]
             item == Plain("datetime")
  <2>1. /\ v = List(v.list) /\ v.list \in Seq(S) /\ Is(v, "list")
        /\ type = ListOf(item) /\ item \in ScalarTypes
    BY <1>9 DEF Given, Is, Annotation, ScalarTypes, List
  <2>2. \A s \in S : \E n \in Int : s = Datetime(n) \/ s = Midnight(n)
    BY DEF Datetime, Midnight
  <2>3. \A s \in S : ItemGoes(s, ItemToWire(s, item, forSignature), forSignature, item)
    BY <2>2, DatesGo, WithoutNoneIs
  <2> HIDE DEF S, item
  <2>4. FieldToWire(v, Optional(type), forSignature)
          = AllOf([i \in DOMAIN v.list |-> ItemToWire(v.list[i], item, forSignature)])
    BY <2>1, ListIsWritten
  <2>5. FieldGoes(v, AllOf([i \in DOMAIN v.list |-> ItemToWire(v.list[i], item, forSignature)]),
                  forSignature, ListOf(item))
    BY <2>1, <2>3, ListGoes
  <2> QED
    BY <2>1, <2>4, <2>5
<1> QED
  BY <1>3, <1>4, <1>5, <1>6, <1>7, <1>8, <1>9 DEF RequestKinds

(* A request with any of its fields set. *)
IsRequest(v, class) ==
    /\ v = Model(class, v.model)
    /\ DOMAIN v.model = DOMAIN Class[class]
    /\ \A f \in DOMAIN v.model : \E a \in RequestKinds :
          Class[class][f] = Optional(Annotation[a]) /\ v.model[f] \in {None} \cup Given[a]

(* What was written of a request. *)
IsWritten(wire, v, forSignature) ==
    /\ DOMAIN wire = {"dict"} /\ DOMAIN wire.dict = {Key(f) : f \in SentFields(v)}
    /\ \A f \in SentFields(v) :
          /\ wire.dict[Key(f)] = FieldToWire(v.model[f], Class[v.class][f], forSignature)
          /\ ~Raised(wire.dict[Key(f)])

LEMMA RequestIsWritten ==
    ASSUME NEW v, NEW class, IsRequest(v, class), NEW forSignature \in BOOLEAN
    PROVE  \/ ToWire(v, forSignature) \in Errors
           \/ ~Raised(ToWire(v, forSignature)) /\ IsWritten(ToWire(v, forSignature), v, forSignature)
<1> DEFINE w == ToWire(v, forSignature)
           wire == [k \in {Key(f) : f \in SentFields(v)} |->
                       LET f == CHOOSE f \in SentFields(v) : Key(f) = k
                       IN  FieldToWire(v.model[f], Class[v.class][f], forSignature)]
<1>1. v.class = class
  BY ModelIs DEF IsRequest
<1>2. ASSUME NEW f \in SentFields(v)
      PROVE  wire[Key(f)] = FieldToWire(v.model[f], Class[v.class][f], forSignature)
  <2>1. (CHOOSE g \in SentFields(v) : Key(g) = Key(f)) = f
    BY KeysDiffer
  <2> QED
    BY <2>1
<1>3. ASSUME NEW f \in SentFields(v)
      PROVE  wire[Key(f)] \in Errors \/ ~Raised(wire[Key(f)])
  <2>1. PICK a \in RequestKinds : Class[class][f] = Optional(Annotation[a]) /\ v.model[f] \in Given[a]
    BY DEF IsRequest, SentFields
  <2>2. v.model[f] # None
    BY DEF SentFields
  <2>3. FieldGoes(v.model[f], FieldToWire(v.model[f], Class[class][f], forSignature), forSignature,
                  Annotation[a])
    BY <2>1, <2>2, FieldIsWritten
  <2> QED
    BY <1>1, <1>2, <2>3 DEF FieldGoes
<1>4. w = EveryOf(wire, Dict(wire)) /\ DOMAIN wire = {Key(f) : f \in SentFields(v)}
  BY DEF ToWire
<1> HIDE DEF w, wire
<1>5. CASE \E k \in DOMAIN wire : Raised(wire[k]) /\ w = wire[k]
  BY <1>3, <1>4, <1>5 DEF w
<1>6. CASE w = Dict(wire) /\ \A k \in DOMAIN wire : ~Raised(wire[k])
  <2>1. DOMAIN w = {"dict"} /\ w.dict = wire
    BY <1>6, DictIs
  <2>2. ~Raised(w)
    BY <2>1 DEF Raised, Is
  <2> QED
    BY <1>2, <1>4, <1>6, <2>1, <2>2 DEF IsWritten, w
<1> QED
  BY <1>4, <1>5, <1>6, EveryOfEither

LEMMA EachScalarIs ==
    ASSUME NEW d, DOMAIN d = {"dict"}
    PROVE  /\ DOMAIN EachScalar(d, WithoutPlaces) = {"dict"}
           /\ EachScalar(d, WithoutPlaces).dict = [k \in DOMAIN d.dict |-> EachItem(d.dict[k], WithoutPlaces)]
           /\ DOMAIN EachScalar(d, AsDoubles) = {"dict"}
           /\ EachScalar(d, AsDoubles).dict = [k \in DOMAIN d.dict |-> EachItem(d.dict[k], AsDoubles)]
BY DictIs DEF EachScalar, Is

(* A request that was written, as it arrives. *)
Arrives(wire, far) ==
    IF far THEN EachScalar(Transmitted(wire), AsDoubles) ELSE Transmitted(wire)

LEMMA ArrivesIs ==
    ASSUME NEW wire, DOMAIN wire = {"dict"}, NEW far \in BOOLEAN
    PROVE  /\ DOMAIN Arrives(wire, far) = {"dict"}
           /\ DOMAIN Arrives(wire, far).dict = DOMAIN wire.dict
           /\ \A k \in DOMAIN wire.dict : Arrives(wire, far).dict[k] = FieldArrives(wire.dict[k], far)
<1>1. /\ DOMAIN Transmitted(wire) = {"dict"}
      /\ Transmitted(wire).dict = [k \in DOMAIN wire.dict |-> EachItem(wire.dict[k], WithoutPlaces)]
  BY EachScalarIs DEF Transmitted
<1>2. /\ DOMAIN EachScalar(Transmitted(wire), AsDoubles) = {"dict"}
      /\ EachScalar(Transmitted(wire), AsDoubles).dict
           = [k \in DOMAIN wire.dict |-> EachItem(EachItem(wire.dict[k], WithoutPlaces), AsDoubles)]
  <2> DEFINE t == Transmitted(wire)
  <2>1. /\ DOMAIN EachScalar(t, AsDoubles) = {"dict"}
        /\ EachScalar(t, AsDoubles).dict = [k \in DOMAIN t.dict |-> EachItem(t.dict[k], AsDoubles)]
    BY <1>1, EachScalarIs
  <2>2. DOMAIN t.dict = DOMAIN wire.dict
        /\ \A k \in DOMAIN wire.dict : t.dict[k] = EachItem(wire.dict[k], WithoutPlaces)
    BY <1>1
  <2> QED
    BY <2>1, <2>2
<1> QED
  BY <1>1, <1>2 DEF Arrives, FieldArrives

(* What a request that is sent means. *)
MeantBy(v) == Model(v.class, [f \in DOMAIN v.model \ Ignored(v.class) |-> v.model[f]])

(* transport.py, to_wire: a request arrives whole, and can be read. *)
LEMMA RequestArrives ==
    ASSUME NEW v, NEW class, IsRequest(v, class), ~Raised(ToWire(v, FALSE)), NEW far \in BOOLEAN,
           NEW got, got = Arrives(ToWire(v, FALSE), far)
    PROVE  /\ Denotes(got, MeantBy(v))
           /\ DOMAIN got.dict \subseteq {Key(f) : f \in DOMAIN MeantBy(v).model}
           /\ \A k \in DOMAIN got.dict : got.dict[k] # None
           /\ ~Raised(DecodeModel(got, class))
<1> DEFINE wire == ToWire(v, FALSE)
<1>1. IsWritten(wire, v, FALSE)
  BY RequestIsWritten, ErrorsAre
<1>2. v.class = class
  BY ModelIs DEF IsRequest
<1>3. DOMAIN got = {"dict"} /\ DOMAIN got.dict = {Key(f) : f \in SentFields(v)}
  BY <1>1, ArrivesIs DEF IsWritten
<1>4. ASSUME NEW f \in SentFields(v)
      PROVE  /\ f \in DOMAIN v.model \ Ignored(class)
             /\ \E a \in RequestKinds : /\ Class[class][f] = Optional(Annotation[a])
                                        /\ FieldArrived(v.model[f], got.dict[Key(f)], Annotation[a])
  <2>1. f \in DOMAIN v.model \ Ignored(class) /\ v.model[f] # None
    BY <1>2 DEF SentFields
  <2>2. PICK a \in RequestKinds : Class[class][f] = Optional(Annotation[a]) /\ v.model[f] \in Given[a]
    BY <2>1 DEF IsRequest
  <2>3. /\ wire.dict[Key(f)] = FieldToWire(v.model[f], Optional(Annotation[a]), FALSE)
        /\ ~Raised(wire.dict[Key(f)])
        /\ got.dict[Key(f)] = FieldArrives(wire.dict[Key(f)], far)
    BY <1>1, <1>2, <2>2, ArrivesIs DEF IsWritten
  <2>4. FieldGoes(v.model[f], wire.dict[Key(f)], FALSE, Annotation[a])
    BY <2>1, <2>2, <2>3, FieldIsWritten
  <2>5. FieldArrived(v.model[f], got.dict[Key(f)], Annotation[a])
    BY <2>3, <2>4, ErrorsAre DEF FieldGoes
  <2> QED
    BY <2>1, <2>2, <2>5
<1>5. ASSUME NEW f \in DOMAIN v.model \ SentFields(v)
      PROVE  Key(f) \notin DOMAIN got.dict
  BY <1>3, KeysDiffer
<1> HIDE DEF wire
<1>6. \A f \in DOMAIN v.model \ Ignored(class) : DenotesModels(Get(got, f), v.model[f])
  <2>1. ASSUME NEW f \in SentFields(v)
        PROVE  DenotesModels(Get(got, f), v.model[f])
    BY <1>3, <1>4, <2>1, DenotesDeeper DEF Get, FieldArrived
  <2>2. ASSUME NEW f \in DOMAIN v.model \ Ignored(class), f \notin SentFields(v)
        PROVE  DenotesModels(Get(got, f), v.model[f])
    <3>1. v.model[f] = None
      BY <1>2, <2>2 DEF SentFields
    <3>2. Get(got, f) = None
      BY <1>5, <2>2 DEF Get
    <3> QED
      BY <3>1, <3>2, NoneDenotesModels
  <2> QED
    BY <2>1, <2>2
<1>7. /\ DOMAIN MeantBy(v).model = DOMAIN v.model \ Ignored(class)
      /\ \A f \in DOMAIN v.model \ Ignored(class) : MeantBy(v).model[f] = v.model[f]
      /\ Is(MeantBy(v), "model")
  BY <1>2, ModelIs DEF MeantBy, Is
<1>8. Denotes(got, MeantBy(v))
  BY <1>3, <1>6, <1>7 DEF Denotes, InFields, Is
<1>9. \A k \in DOMAIN got.dict : got.dict[k] # None
  BY <1>3, <1>4 DEF FieldArrived
<1>10. DOMAIN got.dict \subseteq {Key(f) : f \in DOMAIN MeantBy(v).model}
  BY <1>3, <1>4, <1>7
<1>11. ~Raised(DecodeModel(got, class))
  <2> DEFINE fields == [f \in DOMAIN Class[class] |->
                           IF Key(f) \in DOMAIN got.dict
                           THEN DecodeField(got.dict[Key(f)], Class[class][f])
                           ELSE None]
  <2>1. DecodeModel(got, class) = EveryOf(fields, Model(class, fields))
    <3>1. Is(got, "dict") /\ got # None
      BY <1>3 DEF Is, None
    <3> QED
      BY <3>1 DEF DecodeModel
  <2>2. ASSUME NEW f \in DOMAIN Class[class]
        PROVE  ~Raised(fields[f])
    <3>1. CASE f \in SentFields(v)
      BY <1>3, <1>4, <3>1 DEF FieldArrived
    <3>2. CASE f \notin SentFields(v)
      BY <1>5, <3>2, NoneRaised DEF IsRequest
    <3> QED
      BY <3>1, <3>2
  <2>3. DOMAIN fields = DOMAIN Class[class]
    OBVIOUS
  <2> HIDE DEF fields
  <2>4. EveryOf(fields, Model(class, fields)) = Model(class, fields)
    BY <2>2, <2>3, EveryOfEither
  <2>5. ~Raised(Model(class, fields))
    BY ModelIs DEF Raised, Is
  <2> QED
    BY <2>1, <2>4, <2>5
<1> QED
  BY <1>8, <1>9, <1>10, <1>11

----------------------------------------------------------------------------
(* Signing: a request that is read and written again is what was signed.   *)
SignedKinds == {"long", "int", "str", "decimal"}

LEMMA IssueIs ==
    /\ "issue" \in DOMAIN Endpoint
    /\ Endpoint["issue"].takes = "IssueCardRequest"
    /\ IsTyped(Class["IssueCardRequest"], SignedKinds)
    /\ "IssueCardRequest" \in Requests
<1>1. IsTyped(IssueCardRequest, SignedKinds)
  BY FieldsAre DEF IssueCardRequest, SignedKinds
<1>2. Class["IssueCardRequest"] = IssueCardRequest
  BY DEF Class
<1>3. "issue" \in DOMAIN CardsApi /\ CardsApi["issue"].takes = "IssueCardRequest"
  BY DEF CardsApi, Takes
<1>4. \A api \in Apis \ {CardsApi} : "issue" \notin DOMAIN api
  BY DEF Apis, AuthApi, AccountsApi, TransactionsApi, SharedAccountsApi, CardPoolsApi, CardHoldersApi, CardGroupsApi
<1>5. CardsApi \in Apis
  BY DEF Apis
<1>6. (CHOOSE api \in Apis : "issue" \in DOMAIN api) = CardsApi
  BY <1>3, <1>4, <1>5
<1>7. "issue" \in DOMAIN Endpoint /\ Endpoint["issue"] = CardsApi["issue"]
  BY <1>3, <1>5, <1>6 DEF Endpoint
<1> QED
  BY <1>1, <1>2, <1>3, <1>7 DEF Requests

LEMMA SameKind ==
    ASSUME NEW a \in RequestKinds, NEW b \in SignedKinds, Optional(Annotation[a]) = Optional(Annotation[b])
    PROVE  a = b
<1>1. Annotation[a] = Annotation[b]
  BY OptionalIs
<1> QED
  BY <1>1 DEF Annotation, RequestKinds, SignedKinds, Long, Plain, ListOf

(* What a receiver reads of a field. *)
ReadBack(v, type) ==
    DecodeField(EachItem(FieldToWire(v, Optional(type), FALSE), WithoutPlaces), Optional(type))

(* A field that a receiver reads and writes again is what was signed of it. *)
LEMMA FieldIsRewritten ==
    ASSUME NEW a \in SignedKinds, NEW v \in Given[a], v # None,
           ~Raised(FieldToWire(v, Optional(Annotation[a]), FALSE)),
           ~Raised(FieldToWire(v, Optional(Annotation[a]), TRUE))
    PROVE  /\ ReadBack(v, Annotation[a]) # None
           /\ EachItem(ReadBack(v, Annotation[a]), WithoutPlaces)
                = EachItem(FieldToWire(v, Optional(Annotation[a]), TRUE), WithoutPlaces)
<1> DEFINE type == Annotation[a]
           w == FieldToWire(v, Optional(type), FALSE)
           s == FieldToWire(v, Optional(type), TRUE)
           r == ReadBack(v, type)
<1> SUFFICES r # None /\ EachItem(r, WithoutPlaces) = EachItem(s, WithoutPlaces)
  OBVIOUS
<1>1. ~Raised(w) /\ ~Raised(s) /\ r = DecodeField(EachItem(w, WithoutPlaces), Optional(type))
  BY DEF ReadBack
<1>2. ~Is(v, "list") /\ type \in ScalarTypes
  <2>1. type \in ScalarTypes
    BY DEF SignedKinds, ScalarTypes
  <2>2. v \in Given["long"] \/ v \in Given["int"] \/ v \in Given["str"] \/ v \in Given["decimal"]
    BY DEF SignedKinds
  <2>3. v \in Given["long"] => ~Is(v, "list")
    BY DEF Given, JsonScalar, Numbers, Is, None, NotANumber
  <2>4. v \in Given["int"] => ~Is(v, "list")
    BY DEF Given, Is
  <2>5. v \in Given["str"] => ~Is(v, "list")
    BY DEF Given, Is
  <2>6. v \in Given["decimal"] => ~Is(v, "list")
    BY DEF Given, Is, NotANumber
  <2> QED
    BY <2>1, <2>2, <2>3, <2>4, <2>5, <2>6
<1>3. w = ItemToWire(v, Optional(type), FALSE) /\ s = ItemToWire(v, Optional(type), TRUE)
  BY <1>2 DEF FieldToWire
<1> HIDE DEF w, s, r, type
<1>4. ASSUME EachItem(w, WithoutPlaces) # None,
             ~Raised(DecodeScalar(EachItem(w, WithoutPlaces), type))
      PROVE  r = DecodeScalar(EachItem(w, WithoutPlaces), type)
  BY <1>1, <1>2, <1>4, NotLists, OptionalIs DEF DecodeField, DecodeItems, Either
<1>5. WithoutNone(Optional(type)) = type
  BY WithoutNoneIs
<1>6. \A n : /\ EachItem(Integer(n), WithoutPlaces) = Integer(n) /\ Integer(n) # None /\ ~Raised(Integer(n))
             /\ EachItem(Str("integer", n), WithoutPlaces) = Str("integer", n) /\ Str("integer", n) # None
  BY IntegerIs, SpelledIs DEF EachItem, WithoutPlaces, Is, None, Raised
<1>7. CASE a = "long"
  <2>1. type = Long /\ v \in JsonScalar
    BY <1>7 DEF Annotation, Given, type
  <2>2. w = SerializeLong(v, FALSE) /\ s = SerializeLong(v, TRUE)
    BY <1>3, <1>5, <2>1 DEF ItemToWire
  <2>3. v \in [int : LongRange] /\ w \in {v, Str("integer", v.int)} /\ s = v
    BY <2>1, <2>2, <1>1, LongIsWritten, ErrorsAre
  <2>4. v = Integer(v.int) /\ v.int \in LongRange
    BY <2>3 DEF Integer
  <2> DEFINE x == EachItem(w, WithoutPlaces)
  <2>5. x \in {Integer(v.int), Str("integer", v.int)} /\ x # None
    BY <1>6, <2>3, <2>4
  <2> HIDE DEF x
  <2>6. DecodeScalar(x, Long) = v
    BY <2>4, <2>5, DecodeScalarIs, IntegerDecodes, SpelledDecodes
  <2>7. r = v
    BY <1>4, <1>6, <2>1, <2>4, <2>5, <2>6 DEF x
  <2> QED
    BY <1>6, <2>3, <2>4, <2>7
<1>8. CASE a \in {"int", "str"}
  <2>1. DOMAIN v \in {{"int"}, {"str", "n"}} /\ type \in {Plain("int"), Plain("str")}
    <3>1. CASE a = "int"
      BY <3>1 DEF Given, Annotation, type
    <3>2. CASE a = "str"
      BY <3>2 DEF Given, Annotation, type
    <3> QED
      BY <1>8, <3>1, <3>2
  <2>2. w = v /\ s = v
    <3>1. type # Long
      BY <2>1, WithoutNoneIs
    <3> QED
      BY <1>3, <1>5, <2>1, <3>1, PlainIsWritten
  <2>3. EachItem(v, WithoutPlaces) = v
    BY <2>1 DEF EachItem, WithoutPlaces, Is
  <2>4. DecodeScalar(v, type) = v
    <3>1. CASE a = "int"
      <4>1. DOMAIN v = {"int"} /\ type = Plain("int")
        BY <3>1 DEF Given, Annotation, type
      <4> QED
        BY <4>1, DecodeScalarIs DEF DecodeIntegral, Is
    <3>2. CASE a = "str"
      <4>1. DOMAIN v = {"str", "n"} /\ type = Plain("str")
        BY <3>2 DEF Given, Annotation, type
      <4> QED
        BY <4>1, DecodeScalarIs DEF DecodeStr, Is
    <3> QED
      BY <1>8, <3>1, <3>2
  <2>5. ~Raised(v)
    BY <2>1 DEF Raised, Is
  <2> QED
    BY <1>4, <2>2, <2>3, <2>4, <2>5
<1>9. CASE a = "decimal"
  <2>1. type = Plain("Decimal") /\ v \in Given["decimal"]
    BY <1>9 DEF Annotation, type
  <2>2. v # NotANumber
    <3>1. ASSUME v = NotANumber
          PROVE  w = Raise("ValueError")
      <4>1. DOMAIN v = {"float"}
        BY <3>1 DEF NotANumber
      <4> QED
        BY <1>3, <1>5, <2>1, <4>1, PlainIsWritten, WithoutNoneIs
    <3> QED
      BY <1>1, <3>1, RaiseIs DEF Raised, Is
  <2>3. v \in [decimal : Int, places : {0, 1}]
    BY <2>1, <2>2 DEF Given, Held
  <2>4. w = v /\ s = v
    <3>1. DOMAIN v = {"decimal", "places"}
      BY <2>3
    <3> QED
      BY <1>3, <1>5, <2>1, <3>1, PlainIsWritten, WithoutNoneIs
  <2>5. CASE v.places = 0
    <3>1. EachItem(v, WithoutPlaces) = Integer(v.decimal)
      BY <2>3, <2>5 DEF EachItem, WithoutPlaces, Is
    <3>2. DecodeScalar(Integer(v.decimal), type) = Decimal(v.decimal, 0)
      BY <1>6, <2>1, DecodeScalarIs, IntegerIs DEF DecodeDecimal, Is
    <3>3. v = Decimal(v.decimal, 0) /\ ~Raised(v)
      BY <2>3, <2>5 DEF Decimal, Raised, Is
    <3> QED
      BY <1>4, <1>6, <2>4, <3>1, <3>2, <3>3
  <2>6. CASE v.places = 1
    <3>1. EachItem(v, WithoutPlaces) = v
      BY <2>3, <2>6 DEF EachItem, WithoutPlaces, Is
    <3>2. DecodeScalar(v, type) = v
      BY <2>1, <2>3, DecodeScalarIs DEF DecodeDecimal, Is
    <3>3. ~Raised(v)
      BY <2>3 DEF Raised, Is
    <3> QED
      BY <1>4, <2>4, <3>1, <3>2, <3>3
  <2> QED
    BY <2>3, <2>5, <2>6
<1> QED
  BY <1>7, <1>8, <1>9 DEF SignedKinds

(* client.py, CardsApi.issue and sign_issue_request. *)
LEMMA RequestIsRewritten ==
    ASSUME NEW v, NEW class, class = "IssueCardRequest", IsRequest(v, class),
           ~Raised(ToWire(v, FALSE)), ~Raised(ToWire(v, TRUE))
    PROVE  Rewritten(DecodeModel(Transmitted(ToWire(v, FALSE)), class)) = Transmitted(ToWire(v, TRUE))
<1> DEFINE wire == ToWire(v, FALSE)
           signing == ToWire(v, TRUE)
           got == Transmitted(wire)
           fields == [f \in DOMAIN Class[class] |->
                         IF Key(f) \in DOMAIN got.dict
                         THEN DecodeField(got.dict[Key(f)], Class[class][f])
                         ELSE None]
           keys == {Key(f) : f \in SentFields(v)}
           decoded == Model(class, fields)
           again == [k \in {Key(f) : f \in SentFields(decoded)} |->
                        decoded.model[CHOOSE f \in SentFields(decoded) : Key(f) = k]]
<1>1. v.class = class /\ DOMAIN v.model = DOMAIN Class[class]
  BY ModelIs DEF IsRequest
<1>2. IsWritten(wire, v, FALSE) /\ IsWritten(signing, v, TRUE)
  BY RequestIsWritten, ErrorsAre
<1>3. DOMAIN got = {"dict"} /\ got.dict = [k \in keys |-> EachItem(wire.dict[k], WithoutPlaces)]
  BY <1>2, EachScalarIs DEF IsWritten, Transmitted
<1>4. ~Raised(DecodeModel(got, class))
  BY RequestArrives DEF Arrives
<1>5. DecodeModel(got, class) = decoded
  <2>1. Is(got, "dict") /\ got # None
    <3> HIDE DEF got
    <3> QED
      BY <1>3 DEF Is, None
  <2>2. DecodeModel(got, class) = EveryOf(fields, Model(class, fields))
    BY <2>1 DEF DecodeModel
  <2> HIDE DEF fields, got
  <2> QED
    BY <1>4, <2>2, EveryOfIs
<1>6. ASSUME NEW f \in SentFields(v)
      PROVE  fields[f] # None /\ EachItem(fields[f], WithoutPlaces) = EachItem(signing.dict[Key(f)], WithoutPlaces)
  <2>1. f \in DOMAIN Class[class] /\ v.model[f] # None
    BY <1>1 DEF SentFields
  <2>2. PICK a \in SignedKinds : Class[class][f] = Optional(Annotation[a])
    BY <2>1, IssueIs DEF IsTyped
  <2>3. v.model[f] \in Given[a]
    BY <1>1, <2>1, <2>2, SameKind DEF IsRequest
  <2>4. /\ wire.dict[Key(f)] = FieldToWire(v.model[f], Optional(Annotation[a]), FALSE)
        /\ signing.dict[Key(f)] = FieldToWire(v.model[f], Optional(Annotation[a]), TRUE)
        /\ ~Raised(wire.dict[Key(f)]) /\ ~Raised(signing.dict[Key(f)])
    BY <1>1, <1>2, <2>2 DEF IsWritten
  <2>5. fields[f] = ReadBack(v.model[f], Annotation[a])
    BY <1>3, <2>1, <2>2, <2>4 DEF ReadBack
  <2> HIDE DEF fields, wire, signing
  <2> QED
    BY <2>1, <2>3, <2>4, <2>5, FieldIsRewritten
<1>7. ASSUME NEW f \in DOMAIN Class[class], f \notin SentFields(v)
      PROVE  fields[f] = None
  BY <1>3, <1>7, KeysDiffer
<1>8. /\ decoded.model = fields /\ decoded.class = class
      /\ DOMAIN fields = DOMAIN Class[class]
  BY ModelIs
<1>9. SentFields(decoded) = SentFields(v)
  <2> HIDE DEF fields, decoded
  <2>1. \A f \in SentFields(v) : f \in DOMAIN fields \ Ignored(class) /\ fields[f] # None
    BY <1>1, <1>6, <1>8 DEF SentFields
  <2>2. SentFields(decoded) = {f \in DOMAIN fields \ Ignored(class) : fields[f] # None}
    BY <1>8 DEF SentFields
  <2>3. \A f \in DOMAIN fields : fields[f] # None => f \in SentFields(v)
    BY <1>7, <1>8
  <2>4. SentFields(decoded) \subseteq SentFields(v)
    BY <2>2, <2>3
  <2>5. SentFields(v) \subseteq SentFields(decoded)
    BY <2>1, <2>2
  <2> QED
    BY <2>4, <2>5
<1>10. \A k \in keys : EachItem(again[k], WithoutPlaces) = EachItem(signing.dict[k], WithoutPlaces)
  <2>1. ASSUME NEW f \in SentFields(v)
        PROVE  again[Key(f)] = fields[f]
    <3>1. f \in SentFields(decoded)
      BY <1>9
    <3>2. (CHOOSE g \in SentFields(decoded) : Key(g) = Key(f)) = f
      BY <3>1, KeysDiffer
    <3> HIDE DEF fields, decoded
    <3>3. again[Key(f)] = decoded.model[CHOOSE g \in SentFields(decoded) : Key(g) = Key(f)]
      BY <3>1
    <3> QED
      BY <1>8, <3>2, <3>3
  <2> HIDE DEF again, fields, signing
  <2> QED
    BY <1>6, <2>1
<1>11. DOMAIN again = keys /\ DOMAIN signing.dict = keys /\ DOMAIN signing = {"dict"}
  BY <1>2, <1>9 DEF IsWritten
<1>12. Rewritten(decoded) = Transmitted(Dict(again))
  BY DEF Rewritten
<1> HIDE DEF again, signing, decoded, keys
<1>13. Transmitted(Dict(again)) = Dict([k \in keys |-> EachItem(again[k], WithoutPlaces)])
  BY <1>11, DictIs DEF Transmitted, EachScalar, Is
<1>14. Transmitted(signing) = Dict([k \in keys |-> EachItem(signing.dict[k], WithoutPlaces)])
  BY <1>11 DEF Transmitted, EachScalar, Is
<1>15. [k \in keys |-> EachItem(again[k], WithoutPlaces)] = [k \in keys |-> EachItem(signing.dict[k], WithoutPlaces)]
  BY <1>10
<1> QED
  BY <1>5, <1>12, <1>13, <1>14, <1>15 DEF signing

----------------------------------------------------------------------------
(* Reading: data of the right shape are read, their instants as they are.  *)
(* What was read, if it is an instant, is one that no unit is confused in. *)
IsInstant(r) == Is(r, "datetime") => r.datetime \in Instants

(* An item is read, for its type. *)
ItemRead(v, type) == ~Raised(DecodeScalar(v, type)) /\ IsInstant(DecodeScalar(v, type))

LEMMA NoneIsRead == \A type : ItemRead(None, type)
BY DecodeNone, NoneRaised DEF ItemRead, IsInstant, Is, None

LEMMA LongIsRead == ASSUME NEW v \in Readable["long"] PROVE v # None /\ ItemRead(v, Long)
<1>1. \E n \in LongRange : v = Integer(n) \/ v = Str("integer", n)
  BY DEF Readable, Integer, Str
<1>2. PICK n \in LongRange : v = Integer(n) \/ v = Str("integer", n)
  BY <1>1
<1>3. v # None
  BY <1>2, IntegerIs, SpelledIs DEF None
<1>4. DecodeScalar(v, Long) = Integer(n)
  BY <1>2, <1>3, DecodeScalarIs, IntegerDecodes, SpelledDecodes
<1> QED
  BY <1>3, <1>4, IntegerIs DEF ItemRead, Raised, IsInstant, Is

LEMMA WholeIsRead ==
    ASSUME NEW v \in WholeNumbers
    PROVE  v # None /\ ~Is(v, "list") /\ DecodeIntegral(v) = Integer(Tenths(v) \div 10)
<1>1. v \in Numbers /\ Tenths(v) % 10 = 0
  BY DEF WholeNumbers
<1>2. CASE v \in [int : Int]
  <2>1. v = Integer(v.int) /\ v.int \in Int
    BY <1>2 DEF Integer
  <2>2. Tenths(v) \div 10 = v.int
    BY <2>1, TenthsOfInteger
  <2>3. DecodeIntegral(v) = v
    BY <1>2 DEF DecodeIntegral, Is
  <2> QED
    BY <1>2, <2>1, <2>2, <2>3 DEF Is, None
<1>3. CASE v \in [decimal : Int, places : {0, 1}]
  BY <1>1, <1>3 DEF DecodeIntegral, Is, None
<1> QED
  BY <1>1, <1>2, <1>3 DEF Numbers

LEMMA IntIsRead == ASSUME NEW v \in Readable["int"] PROVE v # None /\ ItemRead(v, Plain("int"))
<1>1. v \in WholeNumbers
  BY DEF Readable
<1>2. DecodeScalar(v, Plain("int")) = Integer(Tenths(v) \div 10) /\ v # None
  BY <1>1, WholeIsRead, DecodeScalarIs
<1> QED
  BY <1>2, IntegerIs DEF ItemRead, Raised, IsInstant, Is

LEMMA StrIsRead == ASSUME NEW v \in [str : Spellings, n : Int] PROVE v # None /\ ItemRead(v, Plain("str"))
<1>1. v # None /\ Is(v, "str") /\ ~Raised(v) /\ ~Is(v, "datetime")
  BY DEF None, Is, Raised
<1>2. DecodeScalar(v, Plain("str")) = v
  BY <1>1, DecodeScalarIs DEF DecodeStr
<1> QED
  BY <1>1, <1>2 DEF ItemRead, IsInstant

LEMMA DecimalIsRead == ASSUME NEW v \in Readable["decimal"] PROVE v # None /\ ItemRead(v, Plain("Decimal"))
<1>1. v # None /\ DOMAIN DecodeDecimal(v) = {"decimal", "places"}
  <2>1. CASE v \in [int : Int]
    BY <2>1 DEF DecodeDecimal, Decimal, Is, None
  <2>2. CASE v \in [decimal : Int, places : {0, 1}]
    BY <2>2 DEF DecodeDecimal, Is, None
  <2>3. CASE v \in [str : SpellsLong \cup {"loose", "real"}, n : Int]
    <3>1. DOMAIN v = {"str", "n"} /\ v.str \in SpellsLong \cup {"loose", "real"}
      BY <2>3
    <3>2. "real" \notin SpellsLong \cup {"loose"}
      BY DEF SpellsLong
    <3>3. DecodeDecimal(v) = Decimal(v.n, 0) \/ DecodeDecimal(v) = Decimal(v.n, 1)
      BY <3>1, <3>2 DEF DecodeDecimal, Is
    <3> QED
      BY <3>1, <3>3 DEF Decimal, None
  <2> QED
    BY <2>1, <2>2, <2>3 DEF Readable, Numbers
<1> QED
  BY <1>1, DecodeScalarIs DEF ItemRead, Raised, IsInstant, Is

LEMMA EpochsAreRead ==
    ASSUME NEW s \in Seconds, NEW u \in Units
    PROVE  /\ EpochDatetime(Integer(s * u)) = Datetime(s * (Thousand * Thousand))
           /\ s * (Thousand * Thousand) \in Instants
<1>1. s \in Nat /\ MillisFrom <= s * Thousand /\ s <= MillisFrom - 1 /\ s * (Thousand * Thousand) <= LastInstant
  BY ScalarAssumption DEF Seconds
<1>2. EpochDatetime(Integer(s * u)) = Datetime(s * (Thousand * Thousand))
  <2>1. s * 1 = s
    BY <1>1
  <2>2. s < MillisFrom
    BY <1>1, ScalarAssumption
  <2> QED
    BY <1>1, <2>1, <2>2, EpochUnitsAgree DEF Units
<1>3. s * (Thousand * Thousand) \in Instants
  <2> DEFINE k == Thousand * Thousand
  <2>1. k \in Nat /\ k >= 1 /\ MillisFrom \in Nat
    BY ScalarAssumption
  <2>2. s * k = (s * Thousand) * Thousand
    BY <1>1, ScalarAssumption
  <2>3. MillisFrom * Thousand <= (s * Thousand) * Thousand
    BY <1>1, ScalarAssumption
  <2> HIDE DEF k
  <2>4. s * k <= (MillisFrom - 1) * k
    BY <1>1, <2>1
  <2>5. (MillisFrom - 1) * k = MillisFrom * k - k
    BY <2>1
  <2>6. s * k \in Int /\ MillisFrom * k \in Int /\ MillisFrom * Thousand \in Int
    BY <1>1, <2>1, ScalarAssumption
  <2>7. s * k <= MillisFrom * k - 1
    BY <2>1, <2>4, <2>5, <2>6
  <2> QED
    BY <2>2, <2>3, <2>6, <2>7 DEF Instants, k
<1> QED
  BY <1>2, <1>3

LEMMA DatetimeIsRead ==
    ASSUME NEW v \in Readable["datetime"]
    PROVE  v # None /\ ItemRead(v, Plain("datetime"))
<1>1. ASSUME NEW n, n \in Instants, DecodeDatetime(v) = Datetime(n), v # None
      PROVE  v # None /\ ItemRead(v, Plain("datetime"))
  BY <1>1, DecodeScalarIs DEF ItemRead, IsInstant, Is, Raised, Datetime
<1>2. CASE v \in Epochs
  <2>1. PICK s \in Seconds, u \in Units : v = Integer(s * u)
    BY <1>2 DEF Epochs
  <2>2. DecodeDatetime(v) = EpochDatetime(v) /\ v # None
    BY <2>1, IntegerIs DEF DecodeDatetime, Is, None
  <2> QED
    BY <1>1, <2>1, <2>2, EpochsAreRead
<1>3. CASE v \in [str : {"datetime"}, n : Instants]
  <2>1. DecodeDatetime(v) = Datetime(v.n) /\ v # None
    BY <1>3 DEF DecodeDatetime, Is, None
  <2> QED
    BY <1>1, <1>3, <2>1
<1>4. CASE v \in [str : {"date", "midnight"}, n : Int]
  <2>1. DecodeDatetime(v) = Midnight(v.n) /\ v # None
    BY <1>4 DEF DecodeDatetime, Is, None
  <2>2. ~Raised(Midnight(v.n)) /\ ~Is(Midnight(v.n), "datetime")
    BY DEF Midnight, Raised, Is
  <2> QED
    BY <2>1, <2>2, DecodeScalarIs DEF ItemRead, IsInstant
<1> QED
  BY <1>2, <1>3, <1>4 DEF Readable

LEMMA DateIsRead == ASSUME NEW v \in Readable["date"] PROVE v # None /\ ItemRead(v, Plain("date"))
<1>1. v # None /\ \E n : DecodeDate(v) = Date(n)
  <2>1. CASE v \in [str : {"date"}, n : Int]
    BY <2>1 DEF DecodeDate, Is, None
  <2>2. CASE v \notin [str : {"date"}, n : Int]
    <3>1. /\ v \in [list : Seq(WholeNumbers)] /\ Len(v.list) = 3
          /\ IsDate(Tenths(v.list[1]) \div 10, Tenths(v.list[2]) \div 10, Tenths(v.list[3]) \div 10)
      BY <2>2 DEF Readable
    <3>2. \A i \in DOMAIN v.list : DecodeIntegral(v.list[i]) = Integer(Tenths(v.list[i]) \div 10)
      BY <3>1, WholeIsRead
    <3>3. DOMAIN v.list = 1..3 /\ DOMAIN v = {"list"}
      BY <3>1
    <3>4. \A i \in DOMAIN v.list : ~Raised(DecodeIntegral(v.list[i]))
      BY <3>2, IntegerIs DEF Raised, Is
    <3>5. \A i \in 1..3 : DecodeIntegral(v.list[i]).int = Tenths(v.list[i]) \div 10
      BY <3>2, <3>3, IntegerIs
    <3>6. Is(v, "list") /\ v # None
      BY <3>3 DEF Is, None
    <3> QED
      BY <3>1, <3>4, <3>5, <3>6 DEF DecodeDate
  <2> QED
    BY <2>1, <2>2
<1> QED
  BY <1>1, DecodeScalarIs DEF ItemRead, IsInstant, Raised, Is, Date

(* A field is read, for its type. *)
FieldRead(v, type) ==
    ~Raised(DecodeField(v, Optional(type))) /\ IsInstant(DecodeField(v, Optional(type)))

LEMMA StrsAreRead == ASSUME NEW v \in Readable["strs"] PROVE FieldRead(v, StrsType)
<1> DEFINE read == [i \in DOMAIN v.list |-> DecodeScalar(v.list[i], Plain("str"))]
           n == Len(v.list)
<1>1. v.list \in Seq({None} \cup [str : Spellings, n : Int]) /\ DOMAIN v = {"list"}
  BY DEF Readable
<1>2. n \in Nat /\ DOMAIN v.list = 1..n
  BY <1>1
<1>3. ASSUME NEW i \in 1..n
      PROVE  ~Raised(read[i])
  <2>1. v.list[i] = None \/ v.list[i] \in [str : Spellings, n : Int]
    BY <1>1, <1>2
  <2>2. read[i] = DecodeScalar(v.list[i], Plain("str"))
    BY <1>2
  <2> HIDE DEF read
  <2> QED
    BY <2>1, <2>2, NoneIsRead, StrIsRead DEF ItemRead
<1>4. DecodeItems(v, StrsType) = AllOf(read)
  BY <1>1, StrsAre DEF DecodeItems, Is, None
<1>5. AllOf(read) = List(read)
  <2>1. DOMAIN read = 1..n
    BY <1>2
  <2> HIDE DEF read, n
  <2> QED
    BY <1>2, <1>3, <2>1, AllOfEither
<1>6. v # None
  BY <1>1 DEF None
<1> HIDE DEF read, n
<1>7. DecodeField(v, Optional(StrsType)) = List(read)
  BY <1>4, <1>5, <1>6, OptionalIs, ListIs DEF DecodeField, Either, Raised, Is
<1> QED
  BY <1>7, ListIs DEF FieldRead, Raised, IsInstant, Is

LEMMA ScalarsAreRead ==
    ASSUME NEW v, v # None, NEW type \in ScalarTypes, ItemRead(v, type)
    PROVE  FieldRead(v, type)
<1>1. DecodeItems(v, type) = DecodeScalar(v, type)
  BY NotLists DEF DecodeItems
<1>2. DecodeField(v, Optional(type)) = DecodeScalar(v, type)
  BY <1>1, OptionalIs DEF DecodeField, Either, ItemRead
<1> QED
  BY <1>2 DEF FieldRead, ItemRead

LEMMA FieldIsRead ==
    ASSUME NEW a \in ResponseKinds, NEW v \in {None} \cup Readable[a]
    PROVE  FieldRead(v, Annotation[a])
<1>1. CASE v = None
  BY <1>1, NoneRaised DEF FieldRead, DecodeField, IsInstant, Is, None
<1>2. CASE a = "strs" /\ v # None
  BY <1>2, StrsAreRead, StrsAre
<1>3. CASE a # "strs" /\ v # None
  <2>1. Annotation[a] \in ScalarTypes
    BY <1>3 DEF ScalarTypes, ResponseKinds
  <2>2. ItemRead(v, Annotation[a])
    <3>1. /\ Annotation["long"] = Long /\ Annotation["int"] = Plain("int")
          /\ Annotation["str"] = Plain("str") /\ Annotation["decimal"] = Plain("Decimal")
          /\ Annotation["datetime"] = Plain("datetime") /\ Annotation["date"] = Plain("date")
      BY DEF Annotation
    <3>2. Readable["str"] = [str : Spellings, n : Int]
      BY DEF Readable
    <3>3. a \in {"long", "int", "str", "decimal", "datetime", "date"} /\ v \in Readable[a]
      BY <1>3 DEF ResponseKinds
    <3> QED
      BY <3>1, <3>2, <3>3, LongIsRead, IntIsRead, StrIsRead, DecimalIsRead, DatetimeIsRead, DateIsRead
  <2> QED
    BY <1>3, <2>1, <2>2, ScalarsAreRead
<1> QED
  BY <1>1, <1>2, <1>3

(* A model whose instants are ones that no unit is confused in. *)
HasInstants(r) == \A f \in DOMAIN r.model : IsInstant(r.model[f])

(* Read, or null. *)
ModelRead(o, class) ==
    /\ ~Raised(DecodeModel(o, class))
    /\ \/ DecodeModel(o, class) = None
       \/ /\ DOMAIN DecodeModel(o, class) = {"class", "model"} /\ DecodeModel(o, class).class = class
          /\ HasInstants(DecodeModel(o, class))

(* A model is read from a body with one field set. *)
LEMMA GoodObjectIsRead ==
    ASSUME NEW class \in Responses, NEW o \in Objects(class, GoodData)
    PROVE  o # None /\ ModelRead(o, class)
<1>1. PICK f \in DOMAIN Class[class] :
          \E v \in GoodData(Class[class][f]) : o = Dict([k \in {Key(f)} |-> v])
  BY DEF Objects
<1>2. PICK v \in GoodData(Class[class][f]) : o = Dict([k \in {Key(f)} |-> v])
  BY <1>1
<1>3. PICK a \in ResponseKinds : Class[class][f] = Optional(Annotation[a])
  BY ResponsesAreTyped DEF IsTyped
<1>4. v \in {None} \cup Readable[a]
  BY <1>2, <1>3, DataAssumption
<1>5. FieldRead(v, Annotation[a])
  BY <1>4, FieldIsRead
<1> DEFINE fields == [g \in DOMAIN Class[class] |->
                         IF Key(g) \in DOMAIN o.dict
                         THEN DecodeField(o.dict[Key(g)], Class[class][g])
                         ELSE None]
<1>6. DOMAIN o = {"dict"} /\ DOMAIN o.dict = {Key(f)} /\ o.dict[Key(f)] = v
  BY <1>2, DictIs
<1>7. Is(o, "dict") /\ o # None
  BY <1>6 DEF Is, None
<1>8. DecodeModel(o, class) = EveryOf(fields, Model(class, fields))
  BY <1>7 DEF DecodeModel
<1>9. ASSUME NEW g \in DOMAIN Class[class]
      PROVE  ~Raised(fields[g]) /\ IsInstant(fields[g])
  <2>1. CASE g = f
    BY <1>3, <1>5, <1>6, <2>1 DEF FieldRead
  <2>2. CASE g # f
    <3>1. fields[g] = None
      BY <1>6, <2>2, KeysDiffer
    <3> HIDE DEF fields
    <3> QED
      BY <3>1, NoneRaised DEF IsInstant, Is, None
  <2> QED
    BY <2>1, <2>2
<1>10. DOMAIN fields = DOMAIN Class[class]
  OBVIOUS
<1> HIDE DEF fields
<1>11. DecodeModel(o, class) = Model(class, fields)
  BY <1>8, <1>9, <1>10, EveryOfEither
<1> QED
  BY <1>7, <1>9, <1>10, <1>11, ModelIs DEF Raised, Is, HasInstants, ModelRead

LEMMA NoneModelRead == \A class : ModelRead(None, class)
BY NoneRaised DEF ModelRead, DecodeModel

(* A list of at most one model is read. *)
ListRead(l, class) ==
    /\ ~Raised(DecodeModels(l, class))
    /\ \/ DecodeModels(l, class) = None
       \/ DecodeModels(l, class) = List(<<>>)
       \/ \E o : ModelRead(o, class) /\ DecodeModels(l, class) = List(<<DecodeModel(o, class)>>)

LEMMA ListIsRead ==
    ASSUME NEW class
    PROVE  /\ ListRead(None, class) /\ ListRead(List(<<>>), class)
           /\ \A o : ModelRead(o, class) => ListRead(List(<<o>>), class)
<1>1. ListRead(None, class)
  BY NoneRaised DEF ListRead, DecodeModels
<1>2. \A s : Is(List(s), "list") /\ List(s) # None
  BY ListIs DEF Is, None
<1>3. ListRead(List(<<>>), class)
  <2> DEFINE s == [i \in DOMAIN <<>> |-> DecodeModel(<<>>[i], class)]
  <2>1. DecodeModels(List(<<>>), class) = AllOf(s)
    BY <1>2, ListIs DEF DecodeModels
  <2>2. s = <<>> /\ DOMAIN s = 1..0
    OBVIOUS
  <2> HIDE DEF s
  <2>3. AllOf(s) = List(<<>>)
    BY <2>2, AllOfEither
  <2> QED
    BY <2>1, <2>3, ListIs DEF ListRead, Raised, Is
<1>4. ASSUME NEW o, ModelRead(o, class)
      PROVE  ListRead(List(<<o>>), class)
  <2> DEFINE s == [i \in DOMAIN <<o>> |-> DecodeModel(<<o>>[i], class)]
  <2>1. DecodeModels(List(<<o>>), class) = AllOf(s)
    BY <1>2, ListIs DEF DecodeModels
  <2>2. s = <<DecodeModel(o, class)>> /\ DOMAIN s = 1..1 /\ s[1] = DecodeModel(o, class)
    OBVIOUS
  <2> HIDE DEF s
  <2>3. ~Raised(s[1])
    BY <1>4, <2>2 DEF ModelRead
  <2>4. AllOf(s) = List(s)
    <3>1. \A i \in DOMAIN s : ~Raised(s[i])
      BY <2>2, <2>3
    <3> QED
      BY <2>2, <3>1, AllOfEither
  <2> QED
    BY <1>4, <2>1, <2>2, <2>4, ListIs DEF ListRead, Raised, Is
<1> QED
  BY <1>1, <1>3, <1>4

LEMMA GoodListIsRead ==
    ASSUME NEW class \in Responses, NEW l \in Lists(class, GoodData)
    PROVE  ListRead(l, class)
<1>1. \/ \E o \in Objects(class, GoodData) : l = List(<<o>>)
      \/ l = List(<<>>) \/ l = List(<<None>>)
  BY DEF Lists
<1> QED
  BY <1>1, GoodObjectIsRead, NoneModelRead, ListIsRead

(* A page of at most one record is read. *)
PageRead(d, class) ==
    /\ DOMAIN DecodePage(d, class) = {"class", "model"} /\ DecodePage(d, class).class = "Page"
    /\ \E l : ListRead(l, class) /\ DecodePage(d, class).model["list"] = DecodeModels(l, class)

LEMMA PageIsRead ==
    ASSUME NEW class, NEW l, ListRead(l, class), NEW n, n = None \/ n \in Readable["long"]
    PROVE  PageRead(Page(l, n), class)
<1> DEFINE p == Page(l, n)
           items == DecodeModels(l, class)
           total == DecodeScalar(n, Long)
<1>1. Key("list") # Key("total")
  BY KeysDiffer
<1>2. DOMAIN p = {"dict"} /\ DOMAIN p.dict = {Key("list"), Key("total")}
      /\ p.dict[Key("list")] = l /\ p.dict[Key("total")] = n
  BY <1>1, DictIs DEF Page
<1> HIDE DEF p
<1>3. Get(p, "list") = l /\ Get(p, "total") = n
  BY <1>2 DEF Get
<1>4. Is(p, "dict") /\ p # None
  BY <1>2 DEF Is, None
<1>5. ~Raised(total)
  BY NoneIsRead, LongIsRead DEF ItemRead
<1>6. ~Raised(items)
  BY DEF ListRead
<1>7. DecodePage(p, class) = Model("Page", [list |-> items, total |-> total])
  BY <1>3, <1>4, <1>5, <1>6 DEF DecodePage
<1> HIDE DEF items, total
<1>8. [list |-> items, total |-> total]["list"] = items
  OBVIOUS
<1> QED
  BY <1>7, <1>8, ModelIs DEF PageRead, p, items

LEMMA GoodPageIsRead ==
    ASSUME NEW class \in Responses, NEW d \in Pages(class, GoodData)
    PROVE  PageRead(d, class)
<1>1. \/ \E o \in Objects(class, GoodData) : d = Page(List(<<o>>), Integer(1))
      \/ \E l \in {None, List(<<>>), List(<<None>>)}, n \in GoodData(Long) : d = Page(l, n)
  BY DEF Pages
<1>2. Integer(1) \in Readable["long"]
  <2>1. 1 \in LongRange
    BY ScalarAssumption DEF LongRange
  <2> QED
    BY <2>1 DEF Readable, Integer
<1>3. \A n \in GoodData(Long) : n = None \/ n \in Readable["long"]
  BY DataAssumption
<1>4. \A l \in {None, List(<<>>), List(<<None>>)} : ListRead(l, class)
  BY ListIsRead, NoneModelRead
<1> QED
  BY <1>1, <1>2, <1>3, <1>4, PageIsRead, ListIsRead, GoodObjectIsRead

(* The models in what a method returned that was read. *)
LEMMA ListModels ==
    ASSUME NEW class, NEW l, ListRead(l, class), DecodeModels(l, class) # None,
           NEW o \in ToSet(DecodeModels(l, class).list) \ {None}
    PROVE  HasInstants(o)
<1>1. CASE DecodeModels(l, class) = List(<<>>)
  BY <1>1, ListIs DEF ToSet
<1>2. CASE \E m : ModelRead(m, class) /\ DecodeModels(l, class) = List(<<DecodeModel(m, class)>>)
  <2>1. PICK m : ModelRead(m, class) /\ DecodeModels(l, class) = List(<<DecodeModel(m, class)>>)
    BY <1>2
  <2>2. ToSet(<<DecodeModel(m, class)>>) = {DecodeModel(m, class)}
    BY DEF ToSet
  <2>3. o = DecodeModel(m, class) /\ o # None
    BY <2>1, <2>2, ListIs
  <2> QED
    BY <2>1, <2>3 DEF ModelRead
<1> QED
  BY <1>1, <1>2 DEF ListRead

LEMMA ModelsInIs ==
    ASSUME NEW r
    PROVE  /\ ~Is(r, "class") /\ ~Is(r, "list") => ModelsIn(r) = {}
           /\ DOMAIN r = {"class", "model"} /\ r.class # "Page" => ModelsIn(r) = {r}
           /\ DOMAIN r = {"class", "model"} /\ r.class = "Page" =>
                 ModelsIn(r) = IF r.model["list"] = None THEN {} ELSE ToSet(r.model["list"].list) \ {None}
           /\ DOMAIN r = {"list"} => ModelsIn(r) = ToSet(r.list) \ {None}
<1>1. CASE DOMAIN r = {"class", "model"}
  BY <1>1 DEF ModelsIn, Is
<1>2. CASE DOMAIN r = {"list"}
  BY <1>2 DEF ModelsIn, Is
<1>3. CASE ~Is(r, "class") /\ ~Is(r, "list")
  BY <1>3 DEF ModelsIn, Is
<1> QED
  BY <1>1, <1>2, <1>3

LEMMA NoneHasNoModels == ModelsIn(None) = {}
BY ModelsInIs DEF Is, None

LEMMA PageIsNoResponse == "Page" \notin Responses
BY DEF Responses

LEMMA ModelHasInstants ==
    ASSUME NEW class \in Responses, NEW o, ModelRead(o, class)
    PROVE  \A m \in ModelsIn(DecodeModel(o, class)) : HasInstants(m)
<1> DEFINE r == DecodeModel(o, class)
<1>1. r = None \/ (DOMAIN r = {"class", "model"} /\ r.class = class /\ HasInstants(r))
  BY DEF ModelRead
<1> HIDE DEF r
<1>2. CASE r = None
  BY <1>2, NoneHasNoModels DEF r
<1>3. CASE DOMAIN r = {"class", "model"} /\ r.class = class /\ HasInstants(r)
  <2>1. ModelsIn(r) = {r}
    BY <1>3, ModelsInIs, PageIsNoResponse DEF Is
  <2> QED
    BY <1>3, <2>1 DEF r
<1> QED
  BY <1>1, <1>2, <1>3

(* operation_record, of a page that is read. *)
LEMMA FirstHasInstants ==
    ASSUME NEW class \in Responses, NEW d, PageRead(d, class)
    PROVE  /\ ~Raised(First(DecodePage(d, class)))
           /\ \A m \in ModelsIn(First(DecodePage(d, class))) : HasInstants(m)
<1> DEFINE page == DecodePage(d, class)
           models == page.model["list"]
<1>1. PICK l : ListRead(l, class) /\ models = DecodeModels(l, class)
  BY DEF PageRead
<1>2. DOMAIN page = {"class", "model"}
  BY DEF PageRead
<1>3. ~Raised(page) /\ page # None
  BY <1>2 DEF Raised, Is, None
<1>4. First(page) = IF models \in {None, List(<<>>)} THEN None ELSE models.list[1]
  BY <1>3 DEF First
<1>5. \/ models \in {None, List(<<>>)}
      \/ \E o : ModelRead(o, class) /\ models = List(<<DecodeModel(o, class)>>)
  BY <1>1 DEF ListRead
<1> HIDE DEF page, models
<1>6. CASE models \in {None, List(<<>>)}
  BY <1>4, <1>6, NoneRaised, NoneHasNoModels DEF page
<1>7. CASE models \notin {None, List(<<>>)}
  <2>1. PICK o : ModelRead(o, class) /\ models = List(<<DecodeModel(o, class)>>)
    BY <1>5, <1>7
  <2>2. First(page) = DecodeModel(o, class)
    BY <1>4, <1>7, <2>1, ListIs
  <2> QED
    BY <2>1, <2>2, ModelHasInstants DEF ModelRead, page
<1> QED
  BY <1>6, <1>7

(* Good data are read, whatever the method makes of them. *)
LEMMA GoodIsRead ==
    ASSUME method \in DOMAIN Endpoint, NEW d \in GoodAnswers
    PROVE  ~Raised(Decoded(d)) /\ \A m \in ModelsIn(Decoded(d)) : HasInstants(m)
<1> DEFINE gives == Endpoint[method].gives
           class == Endpoint[method].class
<1>1. gives \in Shaped \cup {"long", "bool", "None"} /\ (gives \in Shaped => class \in Responses)
  BY EndpointsAreTyped DEF IsMethod
<1>2. d \in Answers(GoodData)
  BY DEF GoodAnswers
<1>3. CASE gives = "model"
  <2>1. d \in Objects(class, GoodData) /\ Decoded(d) = DecodeModel(d, class)
    BY <1>2, <1>3 DEF Answers, Decoded
  <2> QED
    BY <1>1, <1>3, <2>1, GoodObjectIsRead, ModelHasInstants DEF Shaped, ModelRead
<1>4. CASE gives = "list"
  <2>1. d \in Lists(class, GoodData) /\ Decoded(d) = DecodeModels(d, class)
    BY <1>2, <1>4 DEF Answers, Decoded
  <2>2. ListRead(d, class)
    BY <1>1, <1>4, <2>1, GoodListIsRead DEF Shaped
  <2>3. CASE Decoded(d) = None
    BY <2>3, NoneRaised, NoneHasNoModels
  <2>4. CASE Decoded(d) # None
    <3>1. DOMAIN Decoded(d) = {"list"}
      BY <2>1, <2>2, <2>4, ListIs DEF ListRead
    <3>2. ModelsIn(Decoded(d)) = ToSet(Decoded(d).list) \ {None}
      BY <3>1, ModelsInIs DEF Is
    <3>3. ~Raised(Decoded(d))
      BY <3>1 DEF Raised, Is
    <3> QED
      BY <2>1, <2>2, <2>4, <3>2, <3>3, ListModels
  <2> QED
    BY <2>3, <2>4
<1>5. CASE gives \in {"page", "pageEx"}
  <2>1. d \in Pages(class, GoodData) /\ Decoded(d) = DecodePage(d, class)
    BY <1>2, <1>5 DEF Answers, Decoded
  <2>2. PageRead(d, class)
    BY <1>1, <1>5, <2>1, GoodPageIsRead DEF Shaped
  <2>3. DOMAIN Decoded(d) = {"class", "model"} /\ Decoded(d).class = "Page"
    BY <2>1, <2>2 DEF PageRead
  <2>4. PICK l : ListRead(l, class) /\ Decoded(d).model["list"] = DecodeModels(l, class)
    BY <2>1, <2>2 DEF PageRead
  <2>5. ModelsIn(Decoded(d)) = IF DecodeModels(l, class) = None THEN {}
                               ELSE ToSet(DecodeModels(l, class).list) \ {None}
    BY <2>3, <2>4, ModelsInIs DEF Is
  <2>6. ~Raised(Decoded(d))
    BY <2>3 DEF Raised, Is
  <2> QED
    BY <2>4, <2>5, <2>6, ListModels
<1>6. CASE gives = "first"
  <2>1. d \in Pages(class, GoodData) /\ Decoded(d) = First(DecodePage(d, class))
    BY <1>2, <1>6 DEF Answers, Decoded
  <2> QED
    BY <1>1, <1>6, <2>1, GoodPageIsRead, FirstHasInstants DEF Shaped
<1>7. CASE gives = "long"
  <2>1. d \in GoodData(Long) /\ Decoded(d) = DecodeScalar(d, Long)
    BY <1>2, <1>7 DEF Answers, Decoded
  <2>2. d = None \/ d \in Readable["long"]
    BY <2>1, DataAssumption
  <2>3. ~Raised(Decoded(d))
    BY <2>1, <2>2, NoneIsRead, LongIsRead DEF ItemRead
  <2>4. Decoded(d) \in {None} \cup [int : LongRange]
    BY <2>1, <2>2, <2>3, NoneIsData, ReadableIsJson, LongIsLong DEF ResponseKinds
  <2>5. ~Is(Decoded(d), "class") /\ ~Is(Decoded(d), "list")
    BY <2>4 DEF Is, None
  <2> QED
    BY <2>3, <2>5, ModelsInIs
<1>8. CASE gives \in {"bool", "None"}
  <2>1. d \in Bools
    BY <1>2, <1>8 DEF Answers
  <2>2. d = Bool(TRUE) \/ d = Bool(FALSE)
    BY <2>1, Zenon DEF Bools
  <2>3. \A b : DOMAIN Bool(b) = {"bool"}
    BY Zenon DEF Bool
  <2>4. DOMAIN d = {"bool"} /\ d # None
    BY <2>2, <2>3, NoneIs
  <2>5. Decoded(d) \in {d, None}
    BY <1>8, <2>4 DEF Decoded, DecodeBool, Is
  <2>6. ~Is(d, "class") /\ ~Is(d, "list") /\ ~Raised(d)
    BY <2>4 DEF Is, Raised
  <2> QED
    BY <2>5, <2>6, ModelsInIs, NoneRaised, NoneHasNoModels
<1> QED
  BY <1>1, <1>3, <1>4, <1>5, <1>6, <1>7, <1>8 DEF Shaped

----------------------------------------------------------------------------
(* Follow-ups: what callers take from a result to their next request.      *)
(* What a method returns is one of these. *)
LEMMA ResultIs ==
    ASSUME method \in DOMAIN Endpoint, NEW r, IsResult(r)
    PROVE  \/ r \in {None} \cup [int : LongRange] \cup [bool : BOOLEAN]
           \/ \E class \in Responses : IsRead(r, class) \/ IsReadList(r, class) \/ IsReadPage(r, class)
<1> DEFINE gives == Endpoint[method].gives
           class == Endpoint[method].class
<1>1. gives \in Shaped \cup {"long", "bool", "None"} /\ (gives \in Shaped => class \in Responses)
  BY EndpointsAreTyped DEF IsMethod
<1>2. CASE gives \in {"model", "first"}
  BY <1>1, <1>2 DEF IsResult, Shaped
<1>3. CASE gives = "list"
  BY <1>1, <1>3 DEF IsResult, Shaped
<1>4. CASE gives \in {"page", "pageEx"}
  BY <1>1, <1>4 DEF IsResult, Shaped
<1>5. CASE gives = "long"
  BY <1>5 DEF IsResult
<1>6. CASE gives = "bool"
  BY <1>6 DEF IsResult
<1>7. CASE gives = "None"
  BY <1>7 DEF IsResult
<1> QED
  BY <1>1, <1>2, <1>3, <1>4, <1>5, <1>6, <1>7 DEF Shaped

LEMMA ReadModelsIn ==
    ASSUME NEW class, NEW l, IsReadList(l, class), NEW o \in ToSet(l.list) \ {None}
    PROVE  IsRead(o, class)
<1>1. PICK S : l.list \in Seq(S) /\ \A x \in S : x = None \/ IsRead(x, class)
  BY DEF IsReadList
<1>2. \E i \in DOMAIN l.list : o = l.list[i]
  BY DEF ToSet
<1> QED
  BY <1>1, <1>2

LEMMA ModelsInAre ==
    ASSUME method \in DOMAIN Endpoint, NEW r, IsResult(r), NEW o \in ModelsIn(r)
    PROVE  \E class \in Responses : IsRead(o, class)
<1>1. CASE r \in {None} \cup [int : LongRange] \cup [bool : BOOLEAN]
  <2>1. ~Is(r, "class") /\ ~Is(r, "list")
    BY <1>1 DEF Is, None
  <2> QED
    BY <2>1, ModelsInIs
<1>2. ASSUME NEW class \in Responses, IsRead(r, class)
      PROVE  IsRead(o, class)
  <2>1. DOMAIN r = {"class", "model"} /\ r.class # "Page"
    BY <1>2, PageIsNoResponse DEF IsRead
  <2> QED
    BY <1>2, <2>1, ModelsInIs DEF Is
<1>3. ASSUME NEW class \in Responses, IsReadList(r, class)
      PROVE  IsRead(o, class)
  <2>1. DOMAIN r = {"list"}
    BY <1>3, ListIs DEF IsReadList
  <2>2. o \in ToSet(r.list) \ {None}
    BY <2>1, ModelsInIs DEF Is
  <2> QED
    BY <1>3, <2>2, ReadModelsIn
<1>4. ASSUME NEW class \in Responses, IsReadPage(r, class)
      PROVE  IsRead(o, class)
  <2>1. DOMAIN r = {"class", "model"} /\ r.class = "Page"
    BY <1>4 DEF IsReadPage
  <2>2. o \in IF r.model["list"] = None THEN {} ELSE ToSet(r.model["list"].list) \ {None}
    BY <2>1, ModelsInIs DEF Is
  <2>3. r.model["list"] # None /\ o \in ToSet(r.model["list"].list) \ {None}
    BY <2>2
  <2>4. IsReadList(r.model["list"], class)
    BY <1>4, <2>3 DEF IsReadPage
  <2> QED
    BY <2>3, <2>4, ReadModelsIn
<1> QED
  BY <1>1, <1>2, <1>3, <1>4, ResultIs

(* A value the caller may pass on: a Long, but for the ids of shared       *)
(* accounts' transactions.                                                 *)
LEMMA ObtainedAre ==
    ASSUME method \in DOMAIN Endpoint, IsResult(result) \/ DOMAIN result = {"raise"},
           NEW got \in Obtained
    PROVE  /\ got[1] \in Identifiers /\ got[2] \in JsonScalar
           /\ got[3] # "SharedAccountTransactionIdResponse" => got[2] \in [int : LongRange]
<1>1. CASE DOMAIN result = {"raise"}
  <2>1. ModelsIn(result) = {} /\ ~Is(result, "int")
    BY <1>1, ModelsInIs DEF Is
  <2> QED
    BY <2>1 DEF Obtained
<1>2. CASE IsResult(result)
  <2>1. LongRange \subseteq Int
    BY ScalarAssumption DEF LongRange
  <2>2. ASSUME NEW r \in ModelsIn(result), NEW f \in Identifiers \cap DOMAIN r.model, r.model[f] # None
        PROVE  /\ r.model[f] \in JsonScalar
               /\ r.class # "SharedAccountTransactionIdResponse" => r.model[f] \in [int : LongRange]
    <3>1. PICK class \in Responses : IsRead(r, class)
      BY <1>2, ModelsInAre
    <3>2. r.class = class /\ f \in DOMAIN Class[class]
          /\ \A type : Class[class][f] = Optional(type) => Holds(r.model[f], type)
      BY <3>1 DEF IsRead
    <3>3. CASE class # "SharedAccountTransactionIdResponse"
      <4>1. Class[class][f] = Optional(Long)
        BY <3>2, <3>3, ResponsesAreTyped DEF IdentifiersAreLongs
      <4>2. r.model[f] \in [int : LongRange]
        BY <2>2, <3>2, <4>1 DEF Holds
      <4> QED
        BY <2>1, <4>2 DEF JsonScalar, Numbers
    <3>4. CASE class = "SharedAccountTransactionIdResponse"
      <4>1. Class[class][f] = Optional(Plain("str"))
        <5>1. Class[class] = SharedAccountTransactionIdResponse
          BY <3>4 DEF Class
        <5> QED
          BY <3>2, <5>1 DEF SharedAccountTransactionIdResponse, Fields, Annotation
      <4>2. r.model[f] \in [str : Spellings, n : Int]
        BY <2>2, <3>2, <4>1 DEF Holds
      <4> QED
        BY <3>2, <3>4, <4>2 DEF JsonScalar
    <3> QED
      BY <3>3, <3>4
  <2>3. CASE \E r \in ModelsIn(result) : \E f \in Identifiers \cap DOMAIN r.model :
                 r.model[f] # None /\ got = <<f, r.model[f], r.class>>
    BY <2>2, <2>3
  <2>4. CASE \E m \in DOMAIN Returning : Is(result, "int") /\ got = <<Returning[m], result, m>>
    <3>1. PICK m \in DOMAIN Returning : Is(result, "int") /\ got = <<Returning[m], result, m>>
      BY <2>4
    <3>2. Returning[m] \in Identifiers
      BY DEF Returning, Identifiers
    <3>3. result \in [int : LongRange]
      <4>1. \A class : (IsRead(result, class) \/ IsReadPage(result, class)) => ~Is(result, "int")
        BY DEF IsRead, IsReadPage, Is
      <4>2. \A class : IsReadList(result, class) => ~Is(result, "int")
        BY ListIs DEF IsReadList, Is
      <4>3. ~Is(None, "int") /\ result \notin [bool : BOOLEAN]
        BY <3>1 DEF Is, None
      <4> QED
        BY <1>2, <3>1, <4>1, <4>2, <4>3, ResultIs
    <3> QED
      BY <2>1, <3>1, <3>2, <3>3 DEF JsonScalar, Numbers
  <2>5. \/ \E r \in ModelsIn(result) : \E f \in Identifiers \cap DOMAIN r.model :
               r.model[f] # None /\ got = <<f, r.model[f], r.class>>
        \/ \E m \in DOMAIN Returning : Is(result, "int") /\ got = <<Returning[m], result, m>>
    <3>1. CASE got \in UNION {IdentifiersIn(r) : r \in ModelsIn(result)}
      <4>1. PICK r \in ModelsIn(result) : got \in IdentifiersIn(r)
        BY <3>1
      <4> QED
        BY <4>1 DEF IdentifiersIn
    <3>2. CASE got \notin UNION {IdentifiersIn(r) : r \in ModelsIn(result)}
      BY <3>2 DEF Obtained
    <3> QED
      BY <3>1, <3>2
  <2> QED
    BY <2>3, <2>4, <2>5
<1> QED
  BY <1>1, <1>2

LEMMA RequestsAreClasses ==
    ASSUME NEW m \in DOMAIN Endpoint
    PROVE  Endpoint[m].takes \in ClassNames <=> Endpoint[m].takes \in Requests
<1>1. "nothing" \notin ClassNames /\ "strings" \notin ClassNames /\ "identifier" \notin ClassNames
  BY DEF ClassNames, Class
<1> QED
  BY <1>1, EndpointsAreTyped, RequestsAreTyped DEF IsMethod

LEMMA FilledIsRequest ==
    ASSUME NEW class \in Requests, NEW field \in DOMAIN Class[class], NEW v,
           NEW a \in RequestKinds, Class[class][field] = Optional(Annotation[a]), v \in Given[a]
    PROVE  IsRequest(Filled(class, field, v), class)
<1> DEFINE m == [f \in DOMAIN Class[class] |-> IF f = field THEN v ELSE None]
<1>1. Filled(class, field, v) = Model(class, m) /\ Filled(class, field, v).model = m
  BY ModelIs DEF Filled
<1>2. ASSUME NEW f \in DOMAIN m
      PROVE  \E b \in RequestKinds : Class[class][f] = Optional(Annotation[b]) /\ m[f] \in {None} \cup Given[b]
  <2>1. CASE f = field
    BY <2>1
  <2>2. CASE f # field
    BY <2>2, RequestsAreTyped DEF IsTyped
  <2> QED
    BY <2>1, <2>2
<1>3. DOMAIN m = DOMAIN Class[class]
  OBVIOUS
<1> HIDE DEF m
<1> QED
  BY <1>1, <1>2, <1>3 DEF IsRequest

LEMMA ArgumentsAreRequests ==
    ASSUME NEW class \in Requests, NEW a \in Arguments(class), a # None
    PROVE  IsRequest(a, class)
<1>1. class \in ClassNames /\ class \notin {"identifier", "strings", "nothing"}
  BY RequestsAreTyped DEF Requests
<1>2. \E f \in DOMAIN Class[class] : \E v \in Samples(Class[class][f]) : a = Filled(class, f, v)
  BY <1>1 DEF Arguments
<1>3. PICK f \in DOMAIN Class[class] : \E v \in Samples(Class[class][f]) : a = Filled(class, f, v)
  BY <1>2
<1>4. PICK v \in Samples(Class[class][f]) : a = Filled(class, f, v)
  BY <1>3
<1>5. PICK k \in RequestKinds : Class[class][f] = Optional(Annotation[k])
  BY RequestsAreTyped DEF IsTyped
<1>6. v \in Given[k]
  BY <1>4, <1>5, DataAssumption
<1> QED
  BY <1>4, <1>5, <1>6, FilledIsRequest

(* An identifier in a field for one is sent. *)
LEMMA FollowUpIsWritten ==
    ASSUME NEW class, NEW field \in DOMAIN Class[class], Class[class][field] = Optional(Long),
           NEW n \in LongRange
    PROVE  ~Raised(ToWire(Filled(class, field, Integer(n)), FALSE))
<1> DEFINE v == Filled(class, field, Integer(n))
           wire == [k \in {Key(f) : f \in SentFields(v)} |->
                       LET f == CHOOSE f \in SentFields(v) : Key(f) = k
                       IN  FieldToWire(v.model[f], Class[v.class][f], FALSE)]
<1>1. v.class = class /\ v.model = [f \in DOMAIN Class[class] |-> IF f = field THEN Integer(n) ELSE None]
  BY ModelIs DEF Filled
<1>2. SentFields(v) \subseteq {field} /\ v.model[field] = Integer(n)
  BY <1>1 DEF SentFields
<1>3. ToWire(v, FALSE) = EveryOf(wire, Dict(wire))
  BY DEF ToWire
<1> HIDE DEF v
<1>4. ASSUME NEW k \in DOMAIN wire
      PROVE  ~Raised(wire[k])
  <2> DEFINE found == CHOOSE f \in SentFields(v) : Key(f) = k
  <2>1. found \in SentFields(v)
    OBVIOUS
  <2>2. found = field
    BY <1>2, <2>1
  <2>3. wire[k] = FieldToWire(Integer(n), Optional(Long), FALSE)
    BY <1>1, <1>2, <2>2
  <2>4. FieldToWire(Integer(n), Optional(Long), FALSE) = SerializeLong(Integer(n), FALSE)
    BY IntegerIs, WithoutNoneIs DEF FieldToWire, ItemToWire, Is, None
  <2>5. ~Raised(SerializeLong(Integer(n), FALSE))
    <3>1. n \in Int
      BY ScalarAssumption DEF LongRange
    <3>2. Raised(SerializeLong(Integer(n), FALSE)) <=> n \notin LongRange
      BY <3>1, BodiesHoldSafeNumbers
    <3> QED
      BY <3>2
  <2> HIDE DEF wire
  <2> QED
    BY <2>3, <2>4, <2>5
<1> HIDE DEF wire
<1>5. EveryOf(wire, Dict(wire)) = Dict(wire)
  BY <1>4, EveryOfEither
<1>6. ~Raised(Dict(wire))
  BY DictIs DEF Raised, Is
<1>7. ~Raised(ToWire(v, FALSE))
  BY <1>3, <1>5, <1>6
<1> QED
  BY <1>7 DEF v

----------------------------------------------------------------------------
(* The calls.                                                              *)
(* What is sent, after what relays it. *)
Sent ==
    IF Body = NoBody THEN NoBody
    ELSE IF relayed THEN EachScalar(Transmitted(Body), AsDoubles) ELSE Transmitted(Body)

(* What is signed and sent is a serialization of the argument, which was   *)
(* not refused.                                                            *)
SentIsSerialized ==
    /\ stage = "signed" => credential = "key"
    /\ stage \in {"signed", "sent"} => ~Refused
    /\ stage = "sent" => ~Raised(Body) /\ body = Sent
    /\ signed # NoBody => signed = SigningForm(argument) /\ ~Raised(signed)

LEMMA BodyIs ==
    ASSUME ~Raised(Body), Body # NoBody
    PROVE  Is(Body, "dict")
<1>1. CASE Endpoint[method].takes = "identifier"
  BY <1>1, DictIs DEF Body, Is
<1>2. CASE Endpoint[method].takes \in {"nothing", "strings"}
  BY <1>2 DEF Body
<1>3. CASE Endpoint[method].takes \notin {"identifier", "nothing", "strings"}
  <2>1. Body = ToWire(argument, FALSE)
    BY <1>3 DEF Body
  <2>2. ~Raised(ToWire(argument, FALSE))
    BY <2>1
  <2> QED
    BY <2>1, <2>2, EveryOfIs, DictIs DEF ToWire, Is
<1> QED
  BY <1>1, <1>2, <1>3

LEMMA EachScalarOfDict ==
    ASSUME NEW v, Is(v, "dict")
    PROVE  /\ Is(Transmitted(v), "dict") /\ Transmitted(v) # NoBody
           /\ Is(EachScalar(v, AsDoubles), "dict") /\ EachScalar(v, AsDoubles) # NoBody
BY DictIs, NoBodyIs DEF Is, Transmitted, EachScalar

LEMMA BodyKept == UNCHANGED <<method, argument>> => Body' = Body /\ SigningForm(argument)' = SigningForm(argument)
BY DEF Body, SigningForm

LEMMA RefusedKept == UNCHANGED <<method, argument, credential>> => Refused' = Refused
BY DEF Refused, Required, BlankToken

LEMMA BeginKeeps ==
    ASSUME TypeOK, NEW m \in DOMAIN Endpoint, NEW a, NEW c \in Credentials(m), NEW origin,
           Begin(m, a, c, origin)
    PROVE  TypeOK' /\ SentIsSerialized'
<1>1. TypeOK'
  <2>1. calls' \in 0..MaxCalls
    BY CallsAssumption DEF Begin, TypeOK
  <2>2. credential' \in Credentials(method)'
    BY DEF Begin, Credentials
  <2>3. method' \in DOMAIN Endpoint
    BY DEF Begin
  <2>4. stage' = "called" /\ relayed' = FALSE /\ signed' = NoBody
    BY DEF Begin
  <2> QED
    BY <2>1, <2>2, <2>3, <2>4 DEF TypeOK, Stages
<1>2. SentIsSerialized'
  BY DEF Begin, SentIsSerialized
<1> QED
  BY <1>1, <1>2

LEMMA ReturnsKeeps ==
    ASSUME TypeOK, SentIsSerialized, stage \in {"called", "signed"}, NEW r, Returns(r)
    PROVE  TypeOK' /\ SentIsSerialized'
<1>1. TypeOK'
  BY DEF Returns, TypeOK, Stages
<1>2. SentIsSerialized'
  BY BodyKept DEF Returns, SentIsSerialized
<1> QED
  BY <1>1, <1>2

LEMMA SerializationKept ==
    TypeOK /\ SentIsSerialized /\ [Next]_vars => TypeOK' /\ SentIsSerialized'
<1> SUFFICES ASSUME TypeOK, SentIsSerialized, [Next]_vars
             PROVE  TypeOK' /\ SentIsSerialized'
  OBVIOUS
<1> HIDE DEF TypeOK, SentIsSerialized
<1>1. CASE UNCHANGED vars
  <2>1. TypeOK'
    BY <1>1 DEF vars, TypeOK
  <2>2. SentIsSerialized'
    BY <1>1, BodyKept, RefusedKept DEF vars, SentIsSerialized, Sent
  <2> QED
    BY <2>1, <2>2
<1>2. CASE Call
  BY <1>2, BeginKeeps DEF Call
<1>3. CASE Follow
  <2>1. \A m \in DOMAIN Endpoint : "signature" \in Credentials(m)
    BY DEF Credentials
  <2> QED
    BY <1>3, <2>1, BeginKeeps DEF Follow
<1>4. CASE Refuse
  BY <1>4, ReturnsKeeps DEF Refuse
<1>5. CASE Sign
  <2>1. CASE Raised(SigningForm(argument))
    BY <1>5, <2>1, ReturnsKeeps DEF Sign
  <2>2. CASE ~Raised(SigningForm(argument))
    <3>1. /\ stage = "called" /\ ~Refused /\ credential = "key"
          /\ signed' = SigningForm(argument) /\ stage' = "signed"
          /\ UNCHANGED <<method, argument, credential, from, body, relayed, data, result, calls>>
      BY <1>5, <2>2 DEF Sign
    <3>2. TypeOK'
      BY <3>1 DEF TypeOK, Stages
    <3>3. SentIsSerialized'
      BY <3>1, <2>2, BodyKept, RefusedKept DEF SentIsSerialized
    <3> QED
      BY <3>2, <3>3
  <2> QED
    BY <2>1, <2>2
<1>6. CASE Send
  <2>1. CASE Raised(Body)
    BY <1>6, <2>1, ReturnsKeeps DEF Send
  <2>2. CASE ~Raised(Body)
    <3>1. /\ stage \in {"called", "signed"} /\ ~Refused
          /\ body' = (IF Body = NoBody THEN NoBody ELSE Transmitted(Body)) /\ stage' = "sent"
          /\ UNCHANGED <<method, argument, credential, from, relayed, signed, data, result, calls>>
      BY <1>6, <2>2 DEF Send, SentIsSerialized
    <3>2. ~relayed
      BY <3>1 DEF TypeOK
    <3>3. TypeOK'
      <4>1. credential # "blank"
        BY <3>1 DEF Refused
      <4> QED
        BY <3>1, <3>2, <4>1 DEF TypeOK, Stages
    <3>4. SentIsSerialized'
      BY <3>1, <2>2, <3>2, BodyKept, RefusedKept DEF SentIsSerialized, Sent
    <3> QED
      BY <3>3, <3>4
  <2> QED
    BY <2>1, <2>2
<1>7. CASE Relay
  <2>1. /\ stage = "sent" /\ ~relayed /\ body # NoBody
        /\ body' = EachScalar(body, AsDoubles) /\ relayed' = TRUE
        /\ UNCHANGED <<method, argument, credential, from, stage, signed, data, result, calls>>
    BY <1>7 DEF Relay
  <2>2. Body # NoBody /\ ~Raised(Body) /\ body = Transmitted(Body)
    BY <2>1 DEF SentIsSerialized, Sent
  <2>3. body' = EachScalar(Transmitted(Body), AsDoubles) /\ body' # NoBody
    BY <2>1, <2>2, BodyIs, EachScalarOfDict
  <2>4. TypeOK'
    BY <2>1, <2>3 DEF TypeOK
  <2>5. SentIsSerialized'
    BY <2>1, <2>2, <2>3, BodyKept, RefusedKept DEF SentIsSerialized, Sent
  <2> QED
    BY <2>4, <2>5
<1>8. CASE Answered
  <2>1. PICK d \in AllAnswers : Answer(d)
    BY <1>8 DEF Answered
  <2>2. TypeOK'
    <3>1. "signature" \in Credentials(method)
      BY DEF Credentials
    <3> QED
      BY <2>1, <3>1 DEF Answer, TypeOK, Stages
  <2>3. SentIsSerialized'
    BY <2>1 DEF Answer, SentIsSerialized
  <2> QED
    BY <2>2, <2>3
<1> QED
  BY <1>1, <1>2, <1>3, <1>4, <1>5, <1>6, <1>7, <1>8 DEF Next, Finished

LEMMA SerializationFirst == Init => TypeOK /\ SentIsSerialized
<1> SUFFICES ASSUME Init PROVE TypeOK /\ SentIsSerialized
  OBVIOUS
<1>1. "signature" \in Credentials(method)
  BY DEF Init, Credentials
<1>2. TypeOK
  <2>1. calls \in 0..MaxCalls
    <3>1. calls = 0
      BY DEF Init
    <3> QED
      BY <3>1, CallsAssumption
  <2>2. method \in DOMAIN Endpoint
    BY HasLogout DEF Init
  <2> QED
    BY <1>1, <2>1, <2>2 DEF Init, TypeOK, Stages
<1> QED
  BY <1>2 DEF Init, SentIsSerialized

(* What was asked, and may still be sent, is a request or nothing. *)
ArgumentIsGiven ==
    stage \in {"called", "signed", "sent"} /\ Endpoint[method].takes \in Requests =>
        argument = None \/ IsRequest(argument, Endpoint[method].takes)

(* What a method returned is what its answer's data were decoded to. *)
ResultIsDecoded ==
    /\ Raised(result) => result \in Errors \cup {Raise("LuminalApiException")}
    /\ stage = "returned" /\ result \notin Errors =>
          /\ data \in AllAnswers
          /\ result = IF Raised(Decoded(data)) THEN Raise("LuminalApiException") ELSE Decoded(data)
    /\ stage # "returned" => result = None

(* A follow-up holds an identifier, in a field for one, and nothing else,  *)
(* and is sent without a key.                                              *)
FollowUp(a, class) ==
    \E f \in DOMAIN Class[class], n \in LongRange :
        Class[class][f] = Optional(Long) /\ a = Filled(class, f, Integer(n))

FollowUpsFit ==
    from \notin {"caller", "SharedAccountTransactionIdResponse"} =>
        /\ stage \in {"called", "sent"} /\ credential = "signature"
        /\ Endpoint[method].takes \in Requests
        /\ FollowUp(argument, Endpoint[method].takes)

CallInv == TypeOK /\ SentIsSerialized /\ ArgumentIsGiven /\ ResultIsDecoded /\ FollowUpsFit

LEMMA SendsARequest ==
    ASSUME method \in DOMAIN Endpoint, Endpoint[method].takes \in Requests
    PROVE  Body = ToWire(argument, FALSE) /\ Required
<1>1. Endpoint[method].takes \notin {"identifier", "nothing", "strings"}
  BY DEF Requests
<1> QED
  BY <1>1, RequestsAreTyped DEF Body, Required

(* Only a request that does not fit raises while it is written, and a      *)
(* follow-up fits.                                                         *)
LEMMA BodyRaises ==
    ASSUME TypeOK, ArgumentIsGiven, stage \in {"called", "signed", "sent"}, ~Refused, Raised(Body)
    PROVE  Body \in Errors
<1>1. Endpoint[method].takes \in Requests
  <2>1. Endpoint[method].takes \in Requests \cup {"nothing", "strings", "identifier"}
    BY EndpointsAreTyped DEF TypeOK, IsMethod
  <2>2. CASE Endpoint[method].takes = "identifier"
    BY <2>2, DictIs DEF Body, Raised, Is
  <2>3. CASE Endpoint[method].takes \in {"nothing", "strings"}
    BY <2>3, NoBodyIs DEF Body, Raised, Is
  <2> QED
    BY <2>1, <2>2, <2>3
<1>2. Body = ToWire(argument, FALSE) /\ Required
  BY <1>1, SendsARequest DEF TypeOK
<1>3. IsRequest(argument, Endpoint[method].takes)
  BY <1>1, <1>2 DEF ArgumentIsGiven, Refused
<1> QED
  BY <1>2, <1>3, RequestIsWritten

LEMMA KeysIssue ==
    ASSUME TypeOK, credential = "key"
    PROVE  Endpoint[method].takes = "IssueCardRequest" /\ "IssueCardRequest" \in Requests
BY IssueIs DEF TypeOK, Credentials

LEMMA SigningRaises ==
    ASSUME TypeOK, ArgumentIsGiven, stage = "called", ~Refused, credential = "key",
           Raised(SigningForm(argument))
    PROVE  SigningForm(argument) \in Errors
<1>1. Endpoint[method].takes \in Requests
  BY KeysIssue
<1>2. Required
  BY <1>1, SendsARequest DEF TypeOK
<1>3. IsRequest(argument, Endpoint[method].takes)
  BY <1>1, <1>2 DEF ArgumentIsGiven, Refused
<1> QED
  BY <1>3, RequestIsWritten DEF SigningForm

LEMMA RefreshIs ==
    /\ Endpoint["refresh_token"].takes = "RefreshTokenRequest"
    /\ DOMAIN Class["RefreshTokenRequest"] = {"refresh_token"}
<1>1. DOMAIN RefreshTokenRequest = {"refresh_token"}
  BY DEF RefreshTokenRequest, Fields
<1>2. Class["RefreshTokenRequest"] = RefreshTokenRequest
  BY DEF Class
<1>3. "refresh_token" \in DOMAIN AuthApi /\ AuthApi["refresh_token"].takes = "RefreshTokenRequest"
  BY DEF AuthApi, Takes
<1>4. \A api \in Apis \ {AuthApi} : "refresh_token" \notin DOMAIN api
  BY DEF Apis, CardsApi, AccountsApi, TransactionsApi, SharedAccountsApi, CardPoolsApi, CardHoldersApi, CardGroupsApi
<1>5. AuthApi \in Apis
  BY DEF Apis
<1>6. (CHOOSE api \in Apis : "refresh_token" \in DOMAIN api) = AuthApi
  BY <1>3, <1>4, <1>5
<1>7. Endpoint["refresh_token"] = AuthApi["refresh_token"]
  BY <1>3, <1>5, <1>6 DEF Endpoint
<1> QED
  BY <1>1, <1>2, <1>3, <1>7

LEMMA FollowUpGoes ==
    ASSUME TypeOK, FollowUpsFit, from \notin {"caller", "SharedAccountTransactionIdResponse"}
    PROVE  ~Refused /\ ~Raised(Body) /\ credential # "key"
<1>1. Endpoint[method].takes \in Requests /\ credential = "signature"
  BY DEF FollowUpsFit
<1>2. PICK f \in DOMAIN Class[Endpoint[method].takes], n \in LongRange :
          /\ Class[Endpoint[method].takes][f] = Optional(Long)
          /\ argument = Filled(Endpoint[method].takes, f, Integer(n))
  BY DEF FollowUpsFit, FollowUp
<1>3. DOMAIN argument = {"class", "model"}
  BY <1>2, ModelIs DEF Filled
<1>4. argument # None /\ argument # Blank
  BY <1>3, NoneIs, SpelledIs DEF Blank
<1>5. ~Raised(Body)
  BY <1>1, <1>2, SendsARequest, FollowUpIsWritten DEF TypeOK
<1>6. ~BlankToken
  <2>1. SUFFICES ASSUME method = "refresh_token"
                 PROVE  argument.model["refresh_token"] # Blank
    BY DEF BlankToken
  <2>2. f = "refresh_token" /\ DOMAIN Class[Endpoint[method].takes] = {"refresh_token"}
    BY <1>2, <2>1, RefreshIs
  <2>3. argument.model["refresh_token"] = Integer(n)
    BY <1>2, <2>2, ModelIs DEF Filled
  <2> QED
    BY <2>3, IntegerIs, SpelledIs DEF Blank
<1> QED
  BY <1>1, <1>4, <1>5, <1>6 DEF Refused

LEMMA AnswersKept == method' = method => AllAnswers' = AllAnswers /\ GoodAnswers' = GoodAnswers
BY DEF AllAnswers, GoodAnswers, Answers, Lists, Pages

LEMMA DecodedKept == method' = method => \A d : d = data' => Decoded(data)' = Decoded(d)
BY DEF Decoded

LEMMA FirstCall == Init => CallInv
<1>1. Init => TypeOK /\ SentIsSerialized
  BY SerializationFirst
<1>2. Init => ArgumentIsGiven /\ ResultIsDecoded /\ FollowUpsFit
  BY NoneRaised DEF Init, ArgumentIsGiven, ResultIsDecoded, FollowUpsFit
<1> QED
  BY <1>1, <1>2 DEF CallInv

(* A call begins, with what a caller gives or with an identifier. *)
LEMMA BeginIsGiven ==
    ASSUME NEW m \in DOMAIN Endpoint, NEW a, NEW c, NEW origin, Begin(m, a, c, origin),
           Endpoint[m].takes \in Requests => a = None \/ IsRequest(a, Endpoint[m].takes),
           origin \notin {"caller", "SharedAccountTransactionIdResponse"} =>
               c = "signature" /\ Endpoint[m].takes \in Requests /\ FollowUp(a, Endpoint[m].takes)
    PROVE  ArgumentIsGiven' /\ ResultIsDecoded' /\ FollowUpsFit'
<1>1. ArgumentIsGiven'
  BY DEF Begin, ArgumentIsGiven
<1>2. ResultIsDecoded'
  BY NoneRaised DEF Begin, ResultIsDecoded
<1>3. FollowUpsFit'
  BY DEF Begin, FollowUpsFit
<1> QED
  BY <1>1, <1>2, <1>3

LEMMA CallIsGiven ==
    ASSUME CallInv, Call
    PROVE  ArgumentIsGiven' /\ ResultIsDecoded' /\ FollowUpsFit'
<1>1. PICK m \in DOMAIN Endpoint :
          \E a \in Arguments(Endpoint[m].takes), c \in Credentials(m) : Begin(m, a, c, "caller")
  BY DEF Call
<1>2. PICK a \in Arguments(Endpoint[m].takes), c \in Credentials(m) : Begin(m, a, c, "caller")
  BY <1>1
<1>3. Endpoint[m].takes \in Requests => a = None \/ IsRequest(a, Endpoint[m].takes)
  BY ArgumentsAreRequests
<1> QED
  BY <1>2, <1>3, BeginIsGiven

LEMMA FollowIsGiven ==
    ASSUME CallInv, Follow
    PROVE  ArgumentIsGiven' /\ ResultIsDecoded' /\ FollowUpsFit'
<1>1. PICK got \in Obtained, m \in DOMAIN Endpoint :
          /\ Endpoint[m].takes \in ClassNames
          /\ got[1] \in DOMAIN Class[Endpoint[m].takes]
          /\ Begin(m, Filled(Endpoint[m].takes, got[1], got[2]), "signature", got[3])
  BY DEF Follow
<1> DEFINE class == Endpoint[m].takes
<1>2. class \in Requests
  BY <1>1, RequestsAreClasses
<1>3. IsResult(result) \/ DOMAIN result = {"raise"}
  <2>1. CASE result \in Errors \cup {Raise("LuminalApiException")}
    BY <2>1, RaiseIs DEF Errors, Raised, Is
  <2>2. CASE result \notin Errors \cup {Raise("LuminalApiException")}
    <3>1. stage = "returned" /\ method \in DOMAIN Endpoint
      BY DEF Follow, CallInv, TypeOK
    <3>2. data \in AllAnswers /\ result = Decoded(data) /\ ~Raised(Decoded(data))
      BY <2>2, <3>1 DEF CallInv, ResultIsDecoded
    <3>3. IsAnswer(data)
      BY <3>1, <3>2, AnswersAreData
    <3>4. IsResult(Decoded(data))
      BY <3>1, <3>2, <3>3, DecodedBelieved
    <3> QED
      BY <3>2, <3>4
  <2> QED
    BY <2>1, <2>2
<1>4. /\ got[1] \in Identifiers /\ got[2] \in JsonScalar
      /\ got[3] # "SharedAccountTransactionIdResponse" => got[2] \in [int : LongRange]
  BY <1>3, ObtainedAre DEF CallInv, TypeOK
<1>5. Class[class][got[1]] = Optional(Long)
  BY <1>1, <1>2, <1>4, RequestsAreTyped DEF IdentifiersAreLongs
<1>6. IsRequest(Filled(class, got[1], got[2]), class)
  <2>1. "long" \in RequestKinds /\ Annotation["long"] = Long /\ Given["long"] = JsonScalar
    BY DEF RequestKinds, Annotation, Given
  <2> QED
    BY <1>1, <1>2, <1>4, <1>5, <2>1, FilledIsRequest
<1>7. got[3] # "SharedAccountTransactionIdResponse" => FollowUp(Filled(class, got[1], got[2]), class)
  <2> SUFFICES ASSUME got[2] \in [int : LongRange]
               PROVE  FollowUp(Filled(class, got[1], got[2]), class)
    BY <1>4
  <2>1. got[2] = Integer(got[2].int) /\ got[2].int \in LongRange
    BY DEF Integer
  <2> QED
    BY <1>1, <1>5, <2>1 DEF FollowUp
<1> QED
  BY <1>1, <1>2, <1>6, <1>7, BeginIsGiven

(* A call that ends with an error of a request that does not fit. *)
LEMMA ErrorIsGiven ==
    ASSUME CallInv, NEW e \in Errors, Returns(e),
           from \in {"caller", "SharedAccountTransactionIdResponse"}
    PROVE  ArgumentIsGiven' /\ ResultIsDecoded' /\ FollowUpsFit'
<1>1. ArgumentIsGiven'
  BY DEF Returns, ArgumentIsGiven
<1>2. ResultIsDecoded'
  BY DEF Returns, ResultIsDecoded
<1>3. FollowUpsFit'
  BY DEF Returns, FollowUpsFit
<1> QED
  BY <1>1, <1>2, <1>3

(* A step towards the server. *)
LEMMA GoingIsGiven ==
    ASSUME CallInv, stage \in {"called", "signed", "sent"}, stage' \in {"signed", "sent"},
           UNCHANGED <<method, argument, credential, from, data, result>>,
           from \in {"caller", "SharedAccountTransactionIdResponse"} \/ stage' = "sent"
    PROVE  ArgumentIsGiven' /\ ResultIsDecoded' /\ FollowUpsFit'
<1>1. ArgumentIsGiven'
  BY DEF CallInv, ArgumentIsGiven
<1>2. ResultIsDecoded'
  BY NoneRaised DEF CallInv, ResultIsDecoded
<1>3. FollowUpsFit'
  BY DEF CallInv, FollowUpsFit
<1> QED
  BY <1>1, <1>2, <1>3

LEMMA AnswerIsGiven ==
    ASSUME CallInv, NEW d \in AllAnswers, Answer(d)
    PROVE  ArgumentIsGiven' /\ ResultIsDecoded' /\ FollowUpsFit'
<1>1. /\ method' = method /\ data' = d /\ stage' = "returned" /\ from' = "caller"
      /\ result' = IF Raised(Decoded(d)) THEN Raise("LuminalApiException") ELSE Decoded(d)
  BY DEF Answer
<1>2. AllAnswers' = AllAnswers /\ Decoded(data)' = Decoded(d)
  BY <1>1, AnswersKept, DecodedKept
<1>3. ResultIsDecoded'
  BY <1>1, <1>2 DEF ResultIsDecoded
<1> QED
  BY <1>1, <1>3 DEF ArgumentIsGiven, FollowUpsFit

LEMMA CallKept == CallInv /\ [Next]_vars => CallInv'
<1> SUFFICES ASSUME CallInv, [Next]_vars
             PROVE  ArgumentIsGiven' /\ ResultIsDecoded' /\ FollowUpsFit'
  BY SerializationKept DEF CallInv
<1>1. TypeOK /\ SentIsSerialized /\ ArgumentIsGiven /\ ResultIsDecoded /\ FollowUpsFit
  BY DEF CallInv
<1>2. CASE UNCHANGED vars
  BY <1>1, <1>2, AnswersKept, DecodedKept DEF vars, ArgumentIsGiven, ResultIsDecoded, FollowUpsFit
<1>3. CASE Call
  BY <1>3, CallIsGiven
<1>4. CASE Follow
  BY <1>4, FollowIsGiven
<1>5. CASE Refuse
  <2>1. from \in {"caller", "SharedAccountTransactionIdResponse"}
    BY <1>1, <1>5, FollowUpGoes DEF Refuse
  <2> QED
    BY <1>5, <2>1, ErrorIsGiven DEF Refuse, Errors
<1>6. CASE Sign
  <2>1. stage = "called" /\ ~Refused /\ credential = "key"
    BY <1>6 DEF Sign
  <2>2. from \in {"caller", "SharedAccountTransactionIdResponse"}
    BY <1>1, <2>1, FollowUpGoes
  <2>3. CASE Raised(SigningForm(argument))
    <3>1. Returns(SigningForm(argument)) /\ SigningForm(argument) \in Errors
      BY <1>1, <1>6, <2>1, <2>3, SigningRaises DEF Sign
    <3> QED
      BY <2>2, <3>1, ErrorIsGiven
  <2>4. CASE ~Raised(SigningForm(argument))
    <3>1. stage' = "signed" /\ UNCHANGED <<method, argument, credential, from, data, result>>
      BY <1>6, <2>4 DEF Sign
    <3> QED
      BY <2>1, <2>2, <3>1, GoingIsGiven
  <2> QED
    BY <2>3, <2>4
<1>7. CASE Send
  <2>1. stage \in {"called", "signed"} /\ ~Refused
    BY <1>1, <1>7 DEF Send, SentIsSerialized
  <2>2. CASE Raised(Body)
    <3>1. Returns(Body) /\ Body \in Errors
      BY <1>1, <1>7, <2>1, <2>2, BodyRaises DEF Send
    <3>2. from \in {"caller", "SharedAccountTransactionIdResponse"}
      BY <1>1, <2>2, FollowUpGoes
    <3> QED
      BY <3>1, <3>2, ErrorIsGiven
  <2>3. CASE ~Raised(Body)
    <3>1. stage' = "sent" /\ UNCHANGED <<method, argument, credential, from, data, result>>
      BY <1>7, <2>3 DEF Send
    <3> QED
      BY <2>1, <3>1, GoingIsGiven
  <2> QED
    BY <2>2, <2>3
<1>8. CASE Relay
  BY <1>8, GoingIsGiven DEF Relay
<1>9. CASE Answered
  BY <1>9, AnswerIsGiven DEF Answered
<1> QED
  BY <1>2, <1>3, <1>4, <1>5, <1>6, <1>7, <1>8, <1>9 DEF Next, Finished

LEMMA CallsAreGiven == Spec => []CallInv
BY FirstCall, CallKept, PTL DEF Spec

----------------------------------------------------------------------------
(* The theorems.                                                           *)
(* client.py: a call takes its steps in order; what is signed was signed   *)
(* with a key, and a blank signature never leaves.                         *)
THEOREM CallsAreTyped == Spec => []TypeOK
<1>1. CallInv => TypeOK
  BY DEF CallInv
<1> QED
  BY <1>1, CallsAreGiven, PTL

(* client.py, _decode_page, _decode_list, _decode_bool, and codec.py,      *)
(* decode_value: whatever the server answers, what a method returns is     *)
(* what the data says.                                                     *)
THEOREM ResultsAreBelieved == Spec => []AnswersAreBelieved
<1>1. CallInv => AnswersAreBelieved
  <2> SUFFICES ASSUME CallInv, stage = "returned", ~Raised(result), Endpoint[method].gives # "None"
               PROVE  \/ Denotes(Said, result)
                      \/ Endpoint[method].gives = "bool" /\ data = None /\ result = Bool(FALSE)
    BY DEF AnswersAreBelieved
  <2>1. method \in DOMAIN Endpoint /\ data \in AllAnswers
        /\ result = Decoded(data) /\ ~Raised(Decoded(data))
    BY ErrorsAre, RaiseIs DEF CallInv, TypeOK, ResultIsDecoded, Raised, Is
  <2>2. IsAnswer(data)
    BY <2>1, AnswersAreData
  <2> QED
    BY <2>1, <2>2, DecodedBelieved
<1> QED
  BY <1>1, CallsAreGiven, PTL

(* codec.py, decode_value: data of the right shape is read, every Long     *)
(* there is, as a number or as a string, and decimals, instants and dates  *)
(* in each of their forms.                                                 *)
THEOREM GoodAnswersRead == Spec => []GoodAnswersAreRead
<1>1. CallInv => GoodAnswersAreRead
  <2> SUFFICES ASSUME CallInv, result = Raise("LuminalApiException"), data \in GoodAnswers
               PROVE  FALSE
    BY DEF GoodAnswersAreRead
  <2>1. result # None /\ result \notin Errors
    BY DEF Errors, Raise, None
  <2>2. method \in DOMAIN Endpoint
        /\ result = IF Raised(Decoded(data)) THEN Raise("LuminalApiException") ELSE Decoded(data)
    BY <2>1 DEF CallInv, TypeOK, ResultIsDecoded
  <2>3. ~Raised(Decoded(data))
    BY <2>2, GoodIsRead
  <2>4. Raised(result)
    BY RaiseIs DEF Raised, Is
  <2> QED
    BY <2>2, <2>3, <2>4
<1> QED
  BY <1>1, CallsAreGiven, PTL

(* codec.py, _decode_epoch_datetime: an instant that no unit is confused   *)
(* in is read as that instant, wherever it stands in what a method returns.*)
THEOREM InstantsRead == Spec => []InstantsAreRead
<1>1. CallInv => InstantsAreRead
  <2> SUFFICES ASSUME CallInv, stage = "returned", data \in GoodAnswers, NEW r \in ModelsIn(result)
               PROVE  HasInstants(r)
    BY DEF InstantsAreRead, HasInstants, IsInstant
  <2>1. result \notin Errors
    <3>1. CASE result \in Errors
      <4>1. DOMAIN result = {"raise"}
        BY <3>1, RaiseIs DEF Errors
      <4> QED
        BY <4>1, ModelsInIs DEF Is
    <3> QED
      BY <3>1
  <2>2. method \in DOMAIN Endpoint
        /\ result = IF Raised(Decoded(data)) THEN Raise("LuminalApiException") ELSE Decoded(data)
    BY <2>1 DEF CallInv, TypeOK, ResultIsDecoded
  <2>3. result = Decoded(data)
    BY <2>2, GoodIsRead
  <2> QED
    BY <2>2, <2>3, GoodIsRead
<1> QED
  BY <1>1, CallsAreGiven, PTL

(* client.py: an identifier that a method returned can be sent in any      *)
(* request that has a field for it, the ids of shared accounts'            *)
(* transactions aside.                                                     *)
THEOREM FollowUpsSent == Spec => []FollowUpsAreSent
<1>1. CallInv => FollowUpsAreSent
  BY DEF CallInv, FollowUpsFit, FollowUpsAreSent
<1> QED
  BY <1>1, CallsAreGiven, PTL

(* What was sent arrives. *)
LEMMA SentArrives ==
    ASSUME CallInv, stage = "sent", Endpoint[method].takes \in ClassNames
    PROVE  /\ Endpoint[method].takes \in Requests
           /\ IsRequest(argument, Endpoint[method].takes)
           /\ ~Raised(ToWire(argument, FALSE))
           /\ relayed \in BOOLEAN /\ body = Arrives(ToWire(argument, FALSE), relayed)
<1>1. method \in DOMAIN Endpoint /\ Endpoint[method].takes \in Requests /\ relayed \in BOOLEAN
  BY RequestsAreClasses DEF CallInv, TypeOK
<1>2. Body = ToWire(argument, FALSE) /\ Required
  BY <1>1, SendsARequest
<1>3. ~Refused /\ ~Raised(Body) /\ body = Sent
  BY DEF CallInv, SentIsSerialized
<1>4. IsRequest(argument, Endpoint[method].takes)
  BY <1>1, <1>2, <1>3 DEF CallInv, ArgumentIsGiven, Refused
<1>5. Body # NoBody
  BY <1>2, <1>3, <1>4, RequestIsWritten, ErrorsAre, NoBodyIs DEF IsWritten
<1> QED
  BY <1>1, <1>2, <1>3, <1>4, <1>5 DEF Sent, Arrives

LEMMA MeantIs == Meant = MeantBy(argument)
BY DEF Meant, MeantBy

(* transport.py, to_wire and _serialize_java_long: what arrives says what  *)
(* the caller's request says, and nothing else, even after a program that  *)
(* keeps numbers as doubles.                                               *)
THEOREM RequestsArriveWhole == Spec => []RequestArrivesWhole
<1>1. CallInv => RequestArrivesWhole
  <2> SUFFICES ASSUME CallInv, stage = "sent", Endpoint[method].takes \in ClassNames
               PROVE  /\ Denotes(body, Meant)
                      /\ DOMAIN body.dict \subseteq {Key(f) : f \in DOMAIN Meant.model}
                      /\ \A k \in DOMAIN body.dict : body.dict[k] # None
    BY DEF RequestArrivesWhole
  <2> QED
    BY SentArrives, RequestArrives, MeantIs
<1> QED
  BY <1>1, CallsAreGiven, PTL

(* transport.py, _serialize_java_long: a typed receiver can read whatever  *)
(* is sent.                                                                *)
THEOREM RequestsRead == Spec => []RequestsAreReadable
<1>1. CallInv => RequestsAreReadable
  <2> SUFFICES ASSUME CallInv, stage = "sent", Endpoint[method].takes \in ClassNames
               PROVE  ~Raised(DecodeModel(body, Endpoint[method].takes))
    BY DEF RequestsAreReadable
  <2> QED
    BY SentArrives, RequestArrives
<1> QED
  BY <1>1, CallsAreGiven, PTL

(* client.py, CardsApi.sign_issue_request: a receiver that decodes a card  *)
(* issuance and writes it out again with its Longs as numbers gets what    *)
(* was signed.                                                             *)
THEOREM SignatureCovers == Spec => []SignatureCoversRequest
<1>1. CallInv => SignatureCoversRequest
  <2> SUFFICES ASSUME CallInv, stage = "sent", ~relayed, signed # NoBody
               PROVE  Rewritten(DecodeModel(body, Endpoint[method].takes)) = Transmitted(signed)
    BY DEF SignatureCoversRequest
  <2>1. Endpoint[method].takes = "IssueCardRequest" /\ "IssueCardRequest" \in Requests
    BY KeysIssue DEF CallInv, TypeOK
  <2>2. "IssueCardRequest" \in ClassNames
    BY <2>1, RequestsAreTyped
  <2>3. /\ IsRequest(argument, "IssueCardRequest") /\ ~Raised(ToWire(argument, FALSE))
        /\ body = Arrives(ToWire(argument, FALSE), relayed)
    BY <2>1, <2>2, SentArrives
  <2>4. body = Transmitted(ToWire(argument, FALSE))
    BY <2>3 DEF Arrives
  <2>5. signed = ToWire(argument, TRUE) /\ ~Raised(ToWire(argument, TRUE))
    BY DEF CallInv, SentIsSerialized, SigningForm
  <2> QED
    BY <2>1, <2>3, <2>4, <2>5, RequestIsRewritten
<1> QED
  BY <1>1, CallsAreGiven, PTL
============================================================================
