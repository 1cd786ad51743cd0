--------------------------- MODULE EndpointCalls ---------------------------
(***************************************************************************)
(* The endpoint methods of client.py, from the caller's argument to the    *)
(* body that is sent and from the answer's data to what the caller gets.   *)
(* The caller may put an identifier it was given into its next request.    *)
(* On its way a body may pass a program that keeps numbers as doubles.     *)
(* Tokens, retries and failing exchanges are HttpTransport's.              *)
(***************************************************************************)
EXTENDS JsonCodec

CONSTANTS
    Samples(_),     \* values a field of an annotation is given by callers
    GoodData(_),    \* data the server may send for an annotation
    BadData,        \* data no server should send for any
    MaxCalls        \* bound: the calls that follow one another

ASSUME CallsAssumption == MaxCalls \in Nat

(* The annotations of the fields that a caller sets, and of those that an  *)
(* answer sets.                                                            *)
RequestKinds == {"long", "int", "str", "decimal", "date", "longs", "datetimes"}
ResponseKinds == {"long", "int", "str", "decimal", "datetime", "date", "strs"}

(* A field's data, whether or not they are the field's: a scalar, {} or a  *)
(* list of such.                                                           *)
Numbers == [int : Int] \cup [decimal : Int, places : {0, 1}]
JsonScalar == {None, NotANumber} \cup Numbers \cup [bool : BOOLEAN] \cup [str : Spellings, n : Int]
JsonFlat == JsonScalar \cup {Dict(<<>>)}
JsonValue == JsonFlat \cup [list : Seq(JsonFlat)]

(* A double holds the integers up to one above SafeBoundary, and beyond    *)
(* only some of them.                                                      *)
AsDouble(n) == IF Magnitude(n) <= SafeBoundary + 1 THEN n ELSE 2 * (n \div 2)

Held == {n \in Int : AsDouble(n) = n}

(* What a caller gives a field: any scalar for a Long, for the others what *)
(* they are declared as, with numbers that a double holds.                 *)
Given == [
    long |-> JsonScalar,
    int |-> [int : Held],
    str |-> [str : Spellings, n : Int],
    decimal |-> [decimal : Held, places : {0}] \cup [decimal : Int, places : {1}] \cup {NotANumber},
    date |-> [date : Int],
    longs |-> [list : Seq([int : Int])],
    datetimes |-> [list : Seq([datetime : Int] \cup [midnight : Int])]]

(* What a server sends for a field: a Long as a number or as a string, a   *)
(* whole number as any number, an instant in any unit where the three      *)
(* cannot be confused, or as a string, a date as a string or an array.     *)
WholeNumbers == {n \in Numbers : Tenths(n) % 10 = 0}
Units == {1, Thousand, Thousand * Thousand}
Seconds == {s \in 1..(MillisFrom - 1) :
               s * Thousand >= MillisFrom /\ s * (Thousand * Thousand) <= LastInstant}
Epochs == UNION {{Integer(s * u) : s \in Seconds} : u \in Units}
Instants == MillisFrom * Thousand..(MillisFrom * (Thousand * Thousand) - 1)

Readable == [
    long |-> [int : LongRange] \cup [str : {"integer"}, n : LongRange],
    int |-> WholeNumbers,
    str |-> [str : Spellings, n : Int],
    decimal |-> Numbers \cup [str : SpellsLong \cup {"loose", "real"}, n : Int],
    datetime |-> Epochs \cup [str : {"datetime"}, n : Instants] \cup [str : {"date", "midnight"}, n : Int],
    date |-> [str : {"date"}, n : Int]
             \cup {v \in [list : Seq(WholeNumbers)] :
                      /\ Len(v.list) = 3
                      /\ IsDate(Tenths(v.list[1]) \div 10, Tenths(v.list[2]) \div 10,
                                Tenths(v.list[3]) \div 10)},
    strs |-> [list : Seq({None} \cup [str : Spellings, n : Int])]]

ASSUME DataAssumption ==
    /\ \A a \in RequestKinds : Samples(Optional(Annotation[a])) \subseteq Given[a]
    /\ \A a \in ResponseKinds : GoodData(Optional(Annotation[a])) \subseteq {None} \cup Readable[a]
    /\ GoodData(Long) \subseteq {None} \cup Readable["long"]
    /\ BadData \subseteq JsonValue

(* What a method takes: a request of some class, nothing, an identifier in *)
(* the path, or strings that must not be blank.  What it makes of the data,*)
(* and of which class that is, if of any.                                  *)
Takes(what, gives, class) == [takes |-> what, gives |-> gives, class |-> class]

AuthApi == [
    get_token |-> Takes("strings", "model", "OAuth2Token"),
    refresh_token |-> Takes("RefreshTokenRequest", "model", "OAuth2Token"),
    logout |-> Takes("nothing", "bool", "none")]

AccountsApi == [
    accounts_list |-> Takes("WalletInfoRequest", "pageEx", "WalletInfoResponse")]

TransactionsApi == [
    transactions_list |-> Takes("WalletTransactionRequest", "page", "WalletTransactionResponse")]

SharedAccountsApi == [
    shared_create |-> Takes("CreateSharedAccountRequest", "model", "SharedAccountIdResponse"),
    shared_list |-> Takes("SharedAccountPageRequest", "pageEx", "SharedAccountResponse"),
    shared_increase |->
        Takes("SharedAccountBalanceRequest", "model", "SharedAccountTransactionIdResponse"),
    shared_decrease |->
        Takes("SharedAccountBalanceRequest", "model", "SharedAccountTransactionIdResponse"),
    shared_cancel |-> Takes("SharedAccountCancelRequest", "bool", "none"),
    shared_details |-> Takes("SharedAccountGetRequest", "model", "SharedAccountResponse"),
    shared_transactions |-> Takes("SharedAccountTransactionsRequest", "pageEx",
                                  "SharedAccountTransactionResponse")]

CardPoolsApi == [pools_list |-> Takes("CardPoolRequest", "list", "CardPoolResponse")]

CardsApi == [
    bins |-> Takes("CardBinsRequest", "pageEx", "CardBinResponse"),
    issue |-> Takes("IssueCardRequest", "long", "none"),
    cards_list |-> Takes("MemberCardPageRequest", "pageEx", "MemberCardResponse"),
    cvv |-> Takes("CardIdRequest", "model", "CardCvvResponse"),
    cards_transactions |-> Takes("CardTransactionsRequest", "pageEx", "CardTransactionResponse"),
    limit |-> Takes("CardIdRequest", "model", "CardLimitResponse"),
    modify_limit |-> Takes("CardLimitUpdateRequest", "bool", "none"),
    modify_limit_async |-> Takes("CardLimitUpdateRequest", "long", "none"),
    freeze |-> Takes("CardIdRequest", "bool", "none"),
    unfreeze |-> Takes("CardIdRequest", "bool", "none"),
    cancel |-> Takes("CardIdRequest", "bool", "none"),
    recharge |-> Takes("MemberCardRechargeRequest", "long", "none"),
    withdraw |-> Takes("MemberCardWithdrawRequest", "long", "none"),
    operation_record |-> Takes("RechargeCardOperationRecordRequest", "first",
                               "RechargeCardOperationRecordResponse"),
    operation_records |-> Takes("RechargeCardOperationRecordRequest", "pageEx",
                                "RechargeCardOperationRecordResponse"),
    issue_details |-> Takes("IssueCardDetailsRequest", "list", "IssueCardDetailsResponse")]

CardHoldersApi == [
    add |-> Takes("CardHolderCreateRequest", "long", "none"),
    countries |-> Takes("nothing", "list", "CardHolderCountryResponse"),
    modify |-> Takes("CardHolderModifyRequest", "None", "none"),
    detail |-> Takes("identifier", "model", "CardHolderDetailResponse"),
    holders_page |-> Takes("CardHolderPageRequest", "page", "CardHolderPageResponse"),
    associated_cards |-> Takes("CardHolderCardPageRequest", "page", "CardHolderCardResponse")]

CardGroupsApi == [
    groups_list |-> Takes("CardGroupRequest", "pageEx", "CardGroupResponse"),
    groups_create |-> Takes("CardGroupCreateRequest", "model", "CardGroupResponse"),
    groups_update |-> Takes("CardGroupUpdateRequest", "bool", "none"),
    groups_delete |-> Takes("CardGroupDeleteRequest", "bool", "none")]

Apis == {AuthApi, AccountsApi, TransactionsApi, SharedAccountsApi, CardPoolsApi, CardsApi,
         CardHoldersApi, CardGroupsApi}

Endpoint == [m \in UNION {DOMAIN api : api \in Apis} |->
                LET api == CHOOSE api \in Apis : m \in DOMAIN api IN api[m]]

----------------------------------------------------------------------------
VARIABLES
    method,     \* the method called last
    argument,   \* its request, or the identifier or string it was given
    credential, \* issue's: "key" (an RsaPrivateKey or PEM text), "signature" or "blank"
    from,       \* the class a follow-up's argument came from, or "caller"
    stage,      \* "idle", "called", "signed", "sent", "returned"
    body,       \* what is sent, NoBody if nothing is
    relayed,    \* whether it passed a program that keeps numbers as doubles
    signed,     \* what was signed, NoBody if nothing was
    data,       \* the data of the answer
    result,     \* what the method returned or raised
    calls       \* the calls made

vars == <<method, argument, credential, from, stage, body, relayed, signed, data, result, calls>>

NoBody == [nobody |-> TRUE]
Blank == Str("words", 0)

Init ==
    /\ method = "logout" /\ argument = None /\ credential = "signature" /\ from = "caller"
    /\ stage = "idle"
    /\ body = NoBody /\ signed = NoBody /\ relayed = FALSE
    /\ data = None /\ result = None
    /\ calls = 0

ClassNames == DOMAIN Class

(* A request in which one field has a value. *)
Filled(class, field, v) ==
    Model(class, [f \in DOMAIN Class[class] |-> IF f = field THEN v ELSE None])

(* What a caller passes: None, requests with one field set, or a string.   *)
Arguments(takes) ==
    CASE takes \in ClassNames ->
            {None} \cup UNION {{Filled(takes, f, v) : v \in Samples(Class[takes][f])}
                                : f \in DOMAIN Class[takes]}
      [] takes = "identifier" -> {None} \cup Samples(Optional(Long))
      [] takes = "strings" -> {Blank, Str("words", 1)}
      [] takes = "nothing" -> {None}

Begin(m, a, c, origin) ==
    /\ calls < MaxCalls
    /\ calls' = calls + 1
    /\ method' = m /\ argument' = a /\ credential' = c /\ from' = origin
    /\ stage' = "called"
    /\ body' = NoBody /\ signed' = NoBody /\ relayed' = FALSE
    /\ data' = None /\ result' = None

Credentials(m) == IF m = "issue" THEN {"key", "signature", "blank"} ELSE {"signature"}

Call ==
    /\ stage = "idle"
    /\ \E m \in DOMAIN Endpoint : \E a \in Arguments(Endpoint[m].takes), c \in Credentials(m) :
          Begin(m, a, c, "caller")

(* The models in what a method returned. *)
ModelsIn(r) ==
    CASE Is(r, "class") /\ r.class # "Page" -> {r}
      [] Is(r, "class") /\ r.class = "Page" ->
            IF r.model["list"] = None THEN {} ELSE ToSet(r.model["list"].list) \ {None}
      [] Is(r, "list") -> ToSet(r.list) \ {None}
      [] OTHER -> {}

(* The fields whose values a caller takes from a result to its next        *)
(* request, and those of the methods that return nothing but one.          *)
Identifiers == {"member_shared_account_id", "member_card_id", "card_bin_id", "card_pool_id",
                "card_group_id", "card_holder_id", "country_id", "task_id",
                "shared_account_transaction_id", "member_card_transaction_id",
                "member_card_operation_record_id"}

Returning == [
    issue |-> "task_id", add |-> "card_holder_id",
    modify_limit_async |-> "member_card_operation_record_id",
    recharge |-> "member_card_operation_record_id",
    withdraw |-> "member_card_operation_record_id"]

(* <<identifier, its value, the class or method it came from>> *)
IdentifiersIn(r) ==
    {<<f, r.model[f], r.class>> : f \in {g \in Identifiers \cap DOMAIN r.model : r.model[g] # None}}

Obtained ==
    (UNION {IdentifiersIn(r) : r \in ModelsIn(result)})
    \cup (IF method \in DOMAIN Returning /\ Is(result, "int")
          THEN {<<Returning[method], result, method>>} ELSE {})

Follow ==
    /\ stage = "returned"
    /\ \E got \in Obtained, m \in DOMAIN Endpoint :
          /\ Endpoint[m].takes \in ClassNames
          /\ got[1] \in DOMAIN Class[Endpoint[m].takes]
          /\ Begin(m, Filled(Endpoint[m].takes, got[1], got[2]), "signature", got[3])

----------------------------------------------------------------------------
Returns(r) ==
    /\ stage' = "returned"
    /\ result' = r
    /\ UNCHANGED <<method, argument, credential, from, body, relayed, signed, data, calls>>

Required == Endpoint[method].takes \in ClassNames \cup {"identifier"}

(* refresh_token is given the string that its request is made of. *)
BlankToken ==
    method = "refresh_token" /\ argument # None /\ argument.model["refresh_token"] = Blank

(* Mutant: a blank signature goes out. *)
BlankGoesOut == (Required /\ argument = None) \/ argument = Blank \/ BlankToken

(* _require_request, require_non_blank: the call ends before anything is   *)
(* signed or sent.                                                         *)
Refused ==
    \/ Required /\ argument = None
    \/ argument = Blank
    \/ BlankToken
    \/ credential = "blank"

Refuse == stage = "called" /\ Refused /\ Returns(Raise("ValueError"))

(* Mutant: the body that is sent is what is signed. *)
SignsBody(v) == ToWire(v, FALSE)

(* serialize_json_for_signature *)
SigningForm(v) == ToWire(v, TRUE)

(* CardsApi.sign_issue_request, when issue is given a key. *)
Sign ==
    /\ stage = "called" /\ ~Refused
    /\ credential = "key"
    /\ IF Raised(SigningForm(argument)) THEN Returns(SigningForm(argument))
       ELSE /\ signed' = SigningForm(argument)
            /\ stage' = "signed"
            /\ UNCHANGED <<method, argument, credential, from, body, relayed, data, result, calls>>

(* What a method sends: a model, {} besides a path, or no body. *)
Body == CASE Endpoint[method].takes = "identifier" -> Dict(<<>>)
          [] Endpoint[method].takes \in {"nothing", "strings"} -> NoBody
          [] OTHER -> ToWire(argument, FALSE)

Send ==
    /\ \/ stage = "called" /\ ~Refused /\ credential # "key"
       \/ stage = "signed"
    /\ IF Raised(Body) THEN Returns(Body)
       ELSE /\ body' = IF Body = NoBody THEN NoBody ELSE Transmitted(Body)
            /\ stage' = "sent"
            /\ UNCHANGED <<method, argument, credential, from, relayed, signed, data, result, calls>>

AsDoubles(v) ==
    CASE Is(v, "int") -> Integer(AsDouble(v.int))
      [] Is(v, "decimal") -> IF Tenths(v) % 10 = 0 THEN Integer(Tenths(v) \div 10) ELSE v
      [] OTHER -> v

Relay ==
    /\ stage = "sent" /\ ~relayed /\ body # NoBody
    /\ body' = EachScalar(body, AsDoubles)
    /\ relayed' = TRUE
    /\ UNCHANGED <<method, argument, credential, from, stage, signed, data, result, calls>>

----------------------------------------------------------------------------
Get(v, field) == IF Key(field) \in DOMAIN v.dict THEN v.dict[Key(field)] ELSE None

(* _decode_page; extra is handed over as it is. *)
DecodePage(v, class) ==
    IF v = None THEN None
    ELSE IF ~Is(v, "dict") THEN Raise("ValueError")
    ELSE LET items == DecodeModels(Get(v, "list"), class)
             total == DecodeScalar(Get(v, "total"), Long)
         IN  IF Raised(items) THEN items ELSE IF Raised(total) THEN total
             ELSE Model("Page", [list |-> items, total |-> total])

(* _decode_bool *)
DecodeBool(v) ==
    IF v = None THEN Bool(FALSE) ELSE IF Is(v, "bool") THEN v ELSE Raise("ValueError")

(* operation_record: the first of the page's records. *)
First(page) ==
    IF page = None \/ Raised(page) THEN page
    ELSE IF page.model["list"] \in {None, List(<<>>)} THEN None
    ELSE page.model["list"].list[1]

Decoded(v) ==
    LET class == Endpoint[method].class
    IN  CASE Endpoint[method].gives = "model" -> DecodeModel(v, class)
          [] Endpoint[method].gives = "long" -> DecodeScalar(v, Long)
          [] Endpoint[method].gives \in {"page", "pageEx"} -> DecodePage(v, class)
          [] Endpoint[method].gives = "first" -> First(DecodePage(v, class))
          [] Endpoint[method].gives = "list" -> DecodeModels(v, class)
          [] Endpoint[method].gives = "bool" -> DecodeBool(v)
          [] Endpoint[method].gives = "None" -> None

(* A model's data with one field set. *)
Objects(class, Values(_)) ==
    UNION {{Dict([k \in {Key(f)} |-> v]) : v \in Values(Class[class][f])} : f \in DOMAIN Class[class]}

Page(list, total) ==
    Dict([k \in {Key("list"), Key("total")} |-> IF k = Key("list") THEN list ELSE total])

Lists(class, Values(_)) ==
    {List(<<o>>) : o \in Objects(class, Values)} \cup {List(<<>>), List(<<None>>)}

Pages(class, Values(_)) ==
    {Page(List(<<o>>), Integer(1)) : o \in Objects(class, Values)}
    \cup UNION {{Page(l, n) : l \in {None, List(<<>>), List(<<None>>)}} : n \in Values(Long)}

Bools == {Bool(TRUE), Bool(FALSE)}

(* Data the server may answer the method with, and data it should not.     *)
Answers(Values(_)) ==
    LET class == Endpoint[method].class
    IN  CASE Endpoint[method].gives = "model" -> Objects(class, Values)
          [] Endpoint[method].gives = "long" -> Values(Long)
          [] Endpoint[method].gives = "list" -> Lists(class, Values)
          [] Endpoint[method].gives \in {"page", "pageEx", "first"} -> Pages(class, Values)
          [] Endpoint[method].gives \in {"bool", "None"} -> Bools

AnyData(type) == GoodData(type) \cup BadData

GoodAnswers == Answers(GoodData)
AllAnswers == Answers(AnyData) \cup BadData \cup {None}

(* The server's answer has code 0 and data d; the call ends, and with it   *)
(* what was sent.                                                          *)
Answer(d) ==
    /\ stage = "sent"
    /\ data' = d
    /\ result' = IF Raised(Decoded(d)) THEN Raise("LuminalApiException") ELSE Decoded(d)
    /\ stage' = "returned"
    /\ argument' = None /\ credential' = "signature" /\ from' = "caller"
    /\ body' = NoBody /\ signed' = NoBody /\ relayed' = FALSE
    /\ UNCHANGED <<method, calls>>

Answered == \E d \in AllAnswers : Answer(d)

Finished == stage = "returned" /\ UNCHANGED vars

Next == Call \/ Follow \/ Refuse \/ Sign \/ Send \/ Relay \/ Answered \/ Finished

Spec == Init /\ [][Next]_vars

----------------------------------------------------------------------------
(* What a piece of JSON says, whatever reads it: the value it denotes.  A  *)
(* number denotes the instants within half the finest unit of it and the   *)
(* share of it that a double may be off.                                   *)
Numeric == {"integer", "minus zero", "other digits", "loose", "real"}

(* Tenths of the number that a JSON number, or a string, spells. *)
Spelled(v) == IF ~Is(v, "str") THEN Tenths(v) ELSE IF v.str = "real" THEN v.n ELSE 10 * v.n
IsNumber(v) ==
    Is(v, "int") \/ Is(v, "decimal") \/ (Is(v, "str") /\ v.str \in Numeric)

IsAbout(tenths, n) ==
    (SafeBoundary + 1) * Magnitude(tenths - n) <= 5 * (SafeBoundary + 1) + Magnitude(n)

DenotesScalar(json, v) ==
    CASE Is(v, "int") \/ Is(v, "decimal") -> IsNumber(json) /\ Spelled(json) = Tenths(v)
      [] Is(v, "datetime") ->
            \/ json = Str("datetime", v.datetime)
            \/ /\ Is(json, "int") \/ Is(json, "decimal")
               /\ \E u \in Units : IsAbout(10 * v.datetime, Tenths(json) * u)
      [] Is(v, "midnight") ->
            \E spelling \in {"date", "midnight"} : json = Str(spelling, v.midnight)
      [] Is(v, "date") ->
            \/ json = Str("date", v.date)
            \/ /\ Is(json, "list") /\ Len(json.list) = 3
               /\ \A i \in 1..3 : IsNumber(json.list[i])
               /\ 10 * v.date = Spelled(json.list[1]) * 10000 + Spelled(json.list[2]) * 100
                                + Spelled(json.list[3])
      [] OTHER -> json = v

(* A list denotes a list item by item, an object a model field by field. *)
InItems(json, v, Denoting(_, _)) ==
    IF ~Is(v, "list") THEN Denoting(json, v)
    ELSE /\ Is(json, "list") /\ Len(json.list) = Len(v.list)
         /\ \A i \in DOMAIN v.list : Denoting(json.list[i], v.list[i])

InFields(json, v, Denoting(_, _)) ==
    IF ~Is(v, "model") THEN Denoting(json, v)
    ELSE /\ Is(json, "dict")
         /\ \A f \in DOMAIN v.model : Denoting(Get(json, f), v.model[f])

(* A field's value, a model, a list of models, a page. *)
DenotesField(json, v) == InItems(json, v, DenotesScalar)
DenotesModel(json, v) == InFields(json, v, DenotesField)
DenotesModels(json, v) == InItems(json, v, DenotesModel)
Denotes(json, v) == InFields(json, v, DenotesModels)

----------------------------------------------------------------------------
Stages == {"idle", "called", "signed", "sent", "returned"}

(* The types, and what belongs to which stage: a blank signature never     *)
(* leaves, something is signed only with a key.                            *)
TypeOK ==
    /\ method \in DOMAIN Endpoint
    /\ credential \in Credentials(method)
    /\ stage \in Stages
    /\ calls \in 0..MaxCalls
    /\ relayed \in BOOLEAN /\ (relayed => stage = "sent" /\ body # NoBody)
    /\ credential = "blank" => stage \in {"called", "returned"}
    /\ signed # NoBody => credential = "key" /\ stage \in {"signed", "sent", "returned"}

(* The part of the argument that is to be sent. *)
Meant == Model(argument.class, [f \in DOMAIN argument.model \ Ignored(argument.class) |-> argument.model[f]])

(* What arrives says what the caller's request says, field for field, and  *)
(* nothing else, even after a program that keeps numbers as doubles: the   *)
(* promise of to_wire, _serialize_java_long and the README's Long rule.    *)
RequestArrivesWhole ==
    stage = "sent" /\ Endpoint[method].takes \in ClassNames =>
        /\ Denotes(body, Meant)
        /\ DOMAIN body.dict \subseteq {Key(f) : f \in DOMAIN Meant.model}
        /\ \A k \in DOMAIN body.dict : body.dict[k] # None

(* A typed receiver can read whatever is sent: a value that does not fit   *)
(* its field's Java type never leaves the client (_serialize_java_long).   *)
RequestsAreReadable ==
    stage = "sent" /\ Endpoint[method].takes \in ClassNames => ~Raised(DecodeModel(body, Endpoint[method].takes))

(* What a server writes that keeps every number a number. *)
Rewritten(v) ==
    Transmitted(Dict([k \in {Key(f) : f \in SentFields(v)} |->
                         v.model[CHOOSE f \in SentFields(v) : Key(f) = k]]))

(* A receiver that decodes a card issuance and writes it out again with    *)
(* its Longs as numbers gets what was signed, though the body it came in   *)
(* differs from that (CardsApi.issue, sign_issue_request).                 *)
SignatureCoversRequest ==
    stage = "sent" /\ ~relayed /\ signed # NoBody =>
        Rewritten(DecodeModel(body, Endpoint[method].takes)) = Transmitted(signed)

(* Whatever the server answers, what a method returns is what the data     *)
(* says: nothing is invented, cut off or dropped, and an instant is off by *)
(* no more than a double of its seconds and half a microsecond             *)
(* (decode_value, _decode_epoch_datetime, _decode_page, _decode_list,      *)
(* _decode_bool).  Two methods' data say more than they return, and an     *)
(* executed action's null is read as "no".                                 *)
Said ==
    CASE Endpoint[method].gives # "first" -> data
      [] data = None -> None
      [] OTHER -> LET items == Get(data, "list")
                  IN  IF items \in {None, List(<<>>)} THEN None ELSE items.list[1]

AnswersAreBelieved ==
    stage = "returned" /\ ~Raised(result) /\ Endpoint[method].gives # "None" =>
        \/ Denotes(Said, result)
        \/ Endpoint[method].gives = "bool" /\ data = None /\ result = Bool(FALSE)

(* Data of the right shape is read: every Long there is, as a number or as *)
(* a string, decimals, instants and dates in each of their forms.          *)
GoodAnswersAreRead ==
    result = Raise("LuminalApiException") => data \notin GoodAnswers

(* An instant that is written in seconds, milliseconds or microseconds,    *)
(* and lies where the three cannot be confused, is read as that instant    *)
(* (_decode_epoch_datetime guesses the unit).                              *)
InstantsAreRead ==
    stage = "returned" /\ data \in GoodAnswers =>
        \A r \in ModelsIn(result) : \A f \in DOMAIN r.model :
            Is(r.model[f], "datetime") => r.model[f].datetime \in Instants

(* An identifier that a method returned can be sent in any request that    *)
(* has a field for it.  The exception is the id of a shared account's      *)
(* transaction, which increase and decrease give as a str and the request  *)
(* for transactions wants as a Long.                                       *)
FollowUpsAreSent ==
    from \notin {"caller", "SharedAccountTransactionIdResponse"} =>
        ~(stage = "returned" /\ Raised(result))
============================================================================
