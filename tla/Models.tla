------------------------------- MODULE Models -------------------------------
(***************************************************************************)
(* The classes of models.py, each as the types of its fields; every field  *)
(* may be None.  PageResult and PageResultEx, which are built by hand, are *)
(* in EndpointCalls.                                                       *)
(***************************************************************************)
EXTENDS Scalars

Long == [long |-> TRUE]
Plain(name) == [plain |-> name]
ListOf(type) == [listOf |-> type]
Optional(type) == [optional |-> type]
Instance(class) == [instance |-> class]

(* The annotations models.py uses, `| None` aside. *)
Annotation == [
    long |-> Long, int |-> Plain("int"), str |-> Plain("str"), decimal |-> Plain("Decimal"),
    datetime |-> Plain("datetime"), date |-> Plain("date"), longs |-> ListOf(Long),
    datetimes |-> ListOf(Plain("datetime")), strs |-> ListOf(Plain("str")),
    results |-> ListOf(Instance("CardOpenResult"))]

(* A class, from the names of its fields by annotation. *)
Fields(names) ==
    [f \in UNION {names[a] : a \in DOMAIN names} |->
        Optional(Annotation[CHOOSE a \in DOMAIN names : f \in names[a]])]

Paging == {"page_no", "page_size"}

(* The fields marked wire_ignore. *)
Ignored(class) == IF class = "CardLimitUpdateRequest" THEN {"card_type"} ELSE {}

----------------------------------------------------------------------------
WalletInfoRequest == Fields([int |-> Paging, str |-> {"currency"}])

WalletInfoResponse == Fields([
    str |-> {"currency", "member_no", "wallet_no", "wallet_status"},
    decimal |-> {"balance", "frozen_balance"}])

OAuth2Token == Fields([
    long |-> {"expires_time"},
    str |-> {"access_token", "token_type", "refresh_token", "scope", "jti"}])

RefreshTokenRequest == Fields([str |-> {"refresh_token"}])

WalletTransactionRequest == Fields([
    long |-> {"member_card_id"},
    int |-> Paging \cup {"type"},
    str |-> {"order_no"},
    datetimes |-> {"create_time"}])

WalletTransactionResponse == Fields([
    long |-> {"transaction_no", "member_no", "wallet_no", "member_card_id"},
    int |-> {"type", "direction", "status"},
    str |-> {"order_no", "currency", "remark", "card_number"},
    decimal |-> {"amount", "fee", "before_balance", "after_balance"},
    datetime |-> {"create_time"}])

CardPoolRequest == Fields([long |-> {"card_pool_id"}, str |-> {"pool_name"}])

CardPoolResponse == Fields([
    long |-> {"card_pool_id"},
    int |-> {"available_count", "shared_account_count", "can_apply_account", "can_apply"},
    str |-> {"pool_name"},
    strs |-> {"card_bins"}])

CreateSharedAccountRequest == Fields([
    long |-> {"card_bin_id", "card_pool_id"},
    str |-> {"account_name"},
    decimal |-> {"recharge_amount"}])

SharedAccountIdResponse == Fields([long |-> {"member_shared_account_id"}])

SharedAccountPageRequest == Fields([
    long |-> {"member_shared_account_id", "card_pool_id"},
    int |-> Paging,
    str |-> {"account_name"}])

SharedAccountResponse == Fields([
    long |-> {"member_shared_account_id", "card_bin_id", "card_pool_id",
             "issued_card_count", "remaining_apply_card_count"},
    int |-> {"can_recharge", "can_apply", "can_reduce", "can_freeze", "can_unfreeze",
            "can_cancel"},
    str |-> {"account_name", "status", "card_bin", "pool_name", "card_organization"},
    decimal |-> {"balance", "apply_handling_fee"},
    datetime |-> {"create_time"}])

SharedAccountBalanceRequest == Fields([
    long |-> {"member_shared_account_id"},
    decimal |-> {"amount"}])

SharedAccountCancelRequest == Fields([
    long |-> {"member_shared_account_id"},
    str |-> {"remark", "verify_code"}])

SharedAccountTransactionIdResponse == Fields([str |-> {"shared_account_transaction_id"}])

SharedAccountGetRequest == Fields([long |-> {"member_shared_account_id"}])

SharedAccountTransactionsRequest == Fields([
    long |-> {"shared_account_transaction_id", "member_shared_account_id", "member_card_id"},
    int |-> Paging,
    str |-> {"type"},
    datetimes |-> {"trade_time"}])

SharedAccountTransactionResponse == Fields([
    long |-> {"shared_account_transaction_id", "member_shared_account_id", "member_card_id"},
    str |-> {"mask_card_no", "order_no", "original_order_no", "status", "settle_status",
            "type", "trade_type", "description", "currency_code", "trade_currency_code",
            "merchant_name", "merchant_id", "merchant_country", "card_bin", "merchant_city",
            "merchant_mcc", "process_status"},
    decimal |-> {"account_balance", "balance", "before_balance", "before_account_balance",
                "trade_actual_amount", "trade_amount"},
    datetime |-> {"settle_time", "trade_time"}])

CardHolderCreateRequest == Fields([
    long |-> {"country_id"},
    str |-> {"last_name", "first_name", "mail", "phone", "area_code", "postal_code",
            "state", "city", "address_line1", "address_line2"},
    date |-> {"birth_date"}])

CardHolderModifyRequest == Fields([
    long |-> {"card_holder_id", "country_id"},
    str |-> {"last_name", "first_name", "mail", "phone", "area_code", "postal_code",
            "state", "city", "address_line1", "address_line2"},
    date |-> {"birth_date"}])

CardHolderPageRequest == Fields([
    long |-> {"card_holder_id"},
    int |-> Paging,
    str |-> {"name", "phone", "mail"},
    longs |-> {"create_time"}])

CardHolderCardPageRequest == Fields([
    long |-> {"card_holder_id", "member_card_id"},
    int |-> Paging])

CardHolderDetailResponse == Fields([
    long |-> {"card_holder_id", "country_id"},
    str |-> {"last_name", "first_name", "mail", "phone", "area_code", "postal_code",
            "state", "city", "address_line1", "address_line2"},
    datetime |-> {"create_time"},
    date |-> {"birth_date"}])

CardHolderPageResponse == Fields([
    long |-> {"card_holder_id"},
    str |-> {"full_name", "full_phone", "mail"},
    datetime |-> {"create_time"}])

CardHolderCardResponse == Fields([
    long |-> {"member_card_id"},
    str |-> {"mask_card_no"},
    datetime |-> {"open_time"}])

CardHolderCountryResponse == Fields([
    long |-> {"country_id"},
    int |-> {"phone_max_length"},
    str |-> {"country_name", "country_code", "area_code"}])

CardBinsRequest == Fields([
    long |-> {"card_pool_id"},
    int |-> Paging,
    str |-> {"card_type", "card_organization", "card_bin", "area_code"}])

CardBinResponse == Fields([
    long |-> {"card_bin_id", "card_pool_id"},
    int |-> {"custom_cardholder", "can_limit"},
    str |-> {"pool_name", "card_type", "currency_code", "area_code", "card_bin",
            "card_organization", "applicable_scenarios"}])

IssueCardRequest == Fields([
    long |-> {"card_bin_id", "card_group_id", "member_shared_account_id", "card_holder_id"},
    int |-> {"apply_count"},
    str |-> {"card_name", "card_type"},
    decimal |-> {"daily_limit", "month_limit", "recharge_amount"}])

MemberCardPageRequest == Fields([
    long |-> {"member_card_id"},
    int |-> Paging,
    str |-> {"status", "card_bin", "card_type", "card_key_words"},
    longs |-> {"card_groups"}])

MemberCardResponse == Fields([
    long |-> {"member_card_id", "member_shared_account_id", "card_bin_id", "card_group_id",
             "create_time"},
    int |-> {"can_limit"},
    str |-> {"card_bin", "card_type", "card_no", "card_tail_no", "currency_code", "status",
            "cardholder", "remark", "card_group_name"},
    decimal |-> {"balance", "total_limit", "daily_limit", "month_limit"},
    datetime |-> {"freeze_time", "cancel_time"}])

CardIdRequest == Fields([long |-> {"member_card_id"}])

CardCvvResponse == Fields([
    long |-> {"member_card_id"},
    str |-> {"card_no", "cvv", "expiry_date"}])

CardTransactionsRequest == Fields([
    long |-> {"member_card_id"},
    int |-> Paging,
    str |-> {"card_type"},
    longs |-> {"trade_time"}])

CardTransactionResponse == Fields([
    long |-> {"member_card_transaction_id", "shared_account_transaction_id",
             "member_shared_account_id", "member_card_id"},
    int |-> {"direction"},
    str |-> {"mask_card_no", "order_no", "original_order_no", "status", "settle_status",
            "type", "trade_type", "description", "currency_code", "trade_currency_code",
            "merchant_name", "merchant_id", "merchant_country", "card_bin", "merchant_city",
            "merchant_mcc", "process_status"},
    decimal |-> {"account_balance", "balance", "before_balance", "before_account_balance",
                "trade_actual_amount", "trade_amount"},
    datetime |-> {"settle_time", "trade_time"}])

CardLimitResponse == Fields([
    long |-> {"member_card_id"},
    decimal |-> {"total_limit", "balance"}])

CardLimitUpdateRequest == Fields([
    long |-> {"member_card_id"},
    str |-> {"card_type"},
    decimal |-> {"daily_limit", "month_limit", "total_limit"}])

MemberCardRechargeRequest == Fields([
    long |-> {"member_card_id"},
    str |-> {"remark"},
    decimal |-> {"amount"}])

MemberCardWithdrawRequest == Fields([
    long |-> {"member_card_id"},
    str |-> {"remark"},
    decimal |-> {"amount"}])

RechargeCardOperationRecordRequest == Fields([
    long |-> {"member_card_operation_record_id", "member_card_id"},
    int |-> Paging])

RechargeCardOperationRecordResponse == Fields([
    long |-> {"member_card_operation_record_id", "member_card_id", "create_time",
             "update_time"},
    str |-> {"card_type", "operation_type", "currency_code", "status", "message"},
    decimal |-> {"amount", "balance"}])

IssueCardDetailsRequest == Fields([long |-> {"task_id"}])

IssueCardDetailsResponse == Fields([
    long |-> {"member_card_id"},
    str |-> {"card_status", "message"}])

CardGroupRequest == Fields([int |-> Paging, str |-> {"card_type"}])

CardGroupResponse == Fields([
    long |-> {"card_group_id"},
    str |-> {"card_group_name", "card_type"},
    datetime |-> {"create_time"}])

CardGroupCreateRequest == Fields([str |-> {"card_group_name", "card_type"}])

CardGroupUpdateRequest == Fields([long |-> {"card_group_id"}, str |-> {"card_group_name"}])

CardGroupDeleteRequest == Fields([long |-> {"card_group_id"}])

CardOpenResult == Fields([long |-> {"member_card_id"}, str |-> {"card_status", "message"}])

CardOpenStatusWebhook == Fields([
    long |-> {"card_apply_task_id", "member_id"},
    results |-> {"list"}])

CardStatusWebhook == Fields([
    str |-> {"member_card_id", "card_status", "member_no", "update_time"}])

SharedAccountOpenStatusWebhook == Fields([
    long |-> {"shared_account_operation_record_id", "member_no", "member_shared_account_id"},
    str |-> {"status"}])

WalletTransactionWebhook == Fields([
    long |-> {"transaction_no", "member_no", "wallet_no", "member_card_id"},
    int |-> {"type", "direction", "status"},
    str |-> {"order_no", "currency", "remark", "card_number"},
    decimal |-> {"amount", "fee", "before_balance", "after_balance"},
    datetime |-> {"create_time"}])

RechargeCardTransferStatusWebhook == Fields([
    long |-> {"member_card_operation_record_id", "member_card_id"},
    str |-> {"card_type", "operation_type", "currency_code", "status", "message"},
    decimal |-> {"amount", "balance", "total_limit", "daily_limit", "month_limit"},
    datetime |-> {"update_time"}])

TransactionWebhook == Fields([
    str |-> {"member_card_transaction_id", "card_type", "shared_account_transaction_id",
            "member_shared_account_id", "member_card_id", "mask_card_no", "order_no",
            "original_order_no", "status", "settle_status", "type", "trade_type",
            "direction", "description", "currency_code", "trade_currency_code",
            "merchant_name", "merchant_id", "merchant_country", "card_bin", "merchant_city",
            "merchant_mcc", "process_status"},
    decimal |-> {"account_balance", "balance", "before_balance", "before_account_balance",
                "trade_actual_amount", "trade_amount"},
    datetime |-> {"settle_time", "trade_time"}])

----------------------------------------------------------------------------
Class == [
    WalletInfoRequest |-> WalletInfoRequest, WalletInfoResponse |-> WalletInfoResponse,
    OAuth2Token |-> OAuth2Token, RefreshTokenRequest |-> RefreshTokenRequest,
    WalletTransactionRequest |-> WalletTransactionRequest,
    WalletTransactionResponse |-> WalletTransactionResponse,
    CardPoolRequest |-> CardPoolRequest, CardPoolResponse |-> CardPoolResponse,
    CreateSharedAccountRequest |-> CreateSharedAccountRequest,
    SharedAccountIdResponse |-> SharedAccountIdResponse,
    SharedAccountPageRequest |-> SharedAccountPageRequest,
    SharedAccountResponse |-> SharedAccountResponse,
    SharedAccountBalanceRequest |-> SharedAccountBalanceRequest,
    SharedAccountCancelRequest |-> SharedAccountCancelRequest,
    SharedAccountTransactionIdResponse |-> SharedAccountTransactionIdResponse,
    SharedAccountGetRequest |-> SharedAccountGetRequest,
    SharedAccountTransactionsRequest |-> SharedAccountTransactionsRequest,
    SharedAccountTransactionResponse |-> SharedAccountTransactionResponse,
    CardHolderCreateRequest |-> CardHolderCreateRequest,
    CardHolderModifyRequest |-> CardHolderModifyRequest,
    CardHolderPageRequest |-> CardHolderPageRequest,
    CardHolderCardPageRequest |-> CardHolderCardPageRequest,
    CardHolderDetailResponse |-> CardHolderDetailResponse,
    CardHolderPageResponse |-> CardHolderPageResponse,
    CardHolderCardResponse |-> CardHolderCardResponse,
    CardHolderCountryResponse |-> CardHolderCountryResponse,
    CardBinsRequest |-> CardBinsRequest, CardBinResponse |-> CardBinResponse,
    IssueCardRequest |-> IssueCardRequest, MemberCardPageRequest |-> MemberCardPageRequest,
    MemberCardResponse |-> MemberCardResponse, CardIdRequest |-> CardIdRequest,
    CardCvvResponse |-> CardCvvResponse, CardTransactionsRequest |-> CardTransactionsRequest,
    CardTransactionResponse |-> CardTransactionResponse,
    CardLimitResponse |-> CardLimitResponse, CardLimitUpdateRequest |-> CardLimitUpdateRequest,
    MemberCardRechargeRequest |-> MemberCardRechargeRequest,
    MemberCardWithdrawRequest |-> MemberCardWithdrawRequest,
    RechargeCardOperationRecordRequest |-> RechargeCardOperationRecordRequest,
    RechargeCardOperationRecordResponse |-> RechargeCardOperationRecordResponse,
    IssueCardDetailsRequest |-> IssueCardDetailsRequest,
    IssueCardDetailsResponse |-> IssueCardDetailsResponse,
    CardGroupRequest |-> CardGroupRequest, CardGroupResponse |-> CardGroupResponse,
    CardGroupCreateRequest |-> CardGroupCreateRequest,
    CardGroupUpdateRequest |-> CardGroupUpdateRequest,
    CardGroupDeleteRequest |-> CardGroupDeleteRequest, CardOpenResult |-> CardOpenResult,
    CardOpenStatusWebhook |-> CardOpenStatusWebhook, CardStatusWebhook |-> CardStatusWebhook,
    SharedAccountOpenStatusWebhook |-> SharedAccountOpenStatusWebhook,
    WalletTransactionWebhook |-> WalletTransactionWebhook,
    RechargeCardTransferStatusWebhook |-> RechargeCardTransferStatusWebhook,
    TransactionWebhook |-> TransactionWebhook]
=============================================================================
