------------------------------- MODULE Endpoints -------------------------------
(***************************************************************************)
(* The endpoints of every controller, the order in which Nest registers    *)
(* them and the guards in front of them, and what comes of it: which       *)
(* handler answers a request.                                              *)
(*                                                                         *)
(* An endpoint is a record of its verb, its path and what its guards ask   *)
(* for; "v1/" is left out of the paths, and Param stands for any :name.    *)
(* The decorators that only describe an endpoint (Swagger) are left out.   *)
(***************************************************************************)
EXTENDS Sequences, FiniteSets, SequencesExt

Param == ":"

Unguarded == [guards |-> {}, public |-> FALSE, roles |-> {}, permissions |-> {}]
Open == [Unguarded EXCEPT !.public = TRUE]
SignedIn == [Unguarded EXCEPT !.guards = {"jwt"}]
AdminsOnly == [Unguarded EXCEPT !.guards = {"jwt", "roles"}, !.roles = {"ADMIN"}]
Permitted(p) == [Unguarded EXCEPT !.guards = {"jwt", "permissions"}, !.permissions = {p}]
ManagesRoles == Permitted("manage_roles")
AssignsRoles == Permitted("assign_roles")
SandboxOnly == [Unguarded EXCEPT !.guards = {"testnet", "jwt"}]
Signed == [Unguarded EXCEPT !.guards = {"webhook"}]

Controller(base, needs) == [base |-> base, needs |-> needs]

\* a handler's decorators that make its controller's count for nothing
HandlerOnly(handler, class) == handler

\* Reflector.getAllAndOverride: what the handler says replaces what its class says.
Override(handler, class) == IF handler /= {} THEN handler ELSE class

Endpoint(verb, c, path, needs) ==
    [verb |-> verb, path |-> c.base \o path,
     guards |-> c.needs.guards \cup needs.guards, public |-> needs.public,
     roles |-> Override(needs.roles, c.needs.roles),
     permissions |-> Override(needs.permissions, c.needs.permissions)]

Get(c, path, needs) == Endpoint("GET", c, path, needs)
Post(c, path, needs) == Endpoint("POST", c, path, needs)
Put(c, path, needs) == Endpoint("PUT", c, path, needs)
Patch(c, path, needs) == Endpoint("PATCH", c, path, needs)
Delete(c, path, needs) == Endpoint("DELETE", c, path, needs)


AppController == Controller(<<>>, Unguarded)
App_getHello == Get(AppController, <<>>, Open)
App_getProfile == Get(AppController, <<"profile">>, SignedIn)

UsersController == Controller(<<"users">>, Unguarded)
Users_create == Post(UsersController, <<>>, Unguarded)
Users_updateMe == Patch(UsersController, <<"me">>, SignedIn)
Users_getMe == Get(UsersController, <<"me">>, SignedIn)
Users_findAll == Get(UsersController, <<>>, AdminsOnly)
Users_findOne == Get(UsersController, <<Param>>, SignedIn)
Users_update == Patch(UsersController, <<Param>>, SignedIn)
Users_remove == Delete(UsersController, <<Param>>, AdminsOnly)
Users_deleteSelf == Delete(UsersController, <<"me">>, SignedIn)
Users_restore == Post(UsersController, <<Param, "restore">>, AdminsOnly)
Users_updateRateLimit == Patch(UsersController, <<Param, "rate-limit">>, AdminsOnly)

AuditLogsController == Controller(<<"admin", "audit-logs">>, AdminsOnly)
AuditLogs_findAll == Get(AuditLogsController, <<>>, Unguarded)

HealthController == Controller(<<"health">>, Unguarded)
Health_liveness == Get(HealthController, <<"live">>, Unguarded)
Health_ready == Get(HealthController, <<"ready">>, Unguarded)
Health_health == Get(HealthController, <<>>, Unguarded)

StellarController == Controller(<<"stellar">>, SignedIn)
Stellar_listTransactions == Get(StellarController, <<"transactions">>, Unguarded)
Stellar_signTransaction == Post(StellarController, <<"transactions", Param, "sign">>, Unguarded)
Stellar_listAssets == Get(StellarController, <<"assets">>, Unguarded)
Stellar_addTrustline == Post(StellarController, <<"assets", "trustline">>, Unguarded)
Stellar_removeTrustline == Delete(StellarController, <<"assets", "trustline">>, Unguarded)
Stellar_getBalances == Get(StellarController, <<"balances">>, Unguarded)
Stellar_getMode == Get(StellarController, <<"mode">>, Unguarded)
Stellar_fundTestnetAccount == Post(StellarController, <<"fund-testnet">>, Unguarded)

WebhooksController == Controller(<<"webhooks">>, SignedIn)
Webhooks_create == Post(WebhooksController, <<>>, Unguarded)
Webhooks_findAll == Get(WebhooksController, <<>>, Unguarded)
Webhooks_update == Patch(WebhooksController, <<Param>>, Unguarded)
Webhooks_remove == Delete(WebhooksController, <<Param>>, Unguarded)
Webhooks_sendTest == Post(WebhooksController, <<Param, "test">>, Unguarded)
Webhooks_rotateSecret == Post(WebhooksController, <<Param, "rotate-secret">>, Unguarded)
Webhooks_retryFailedDelivery == Post(WebhooksController, <<"deliveries", Param, "retry">>, Unguarded)
Webhooks_replay == Post(WebhooksController, <<Param, "replay">>, Unguarded)
Webhooks_getReplayProgress == Get(WebhooksController, <<"replays", Param>>, Unguarded)
Webhooks_reenable == Post(WebhooksController, <<Param, "enable">>, Unguarded)

AuthController == Controller(<<"auth">>, Unguarded)
Auth_register == Post(AuthController, <<"register">>, Unguarded)
Auth_login == Post(AuthController, <<"login">>, Unguarded)
Auth_enableTwoFactor == Post(AuthController, <<"2fa", "enable">>, SignedIn)
Auth_verifyTwoFactor == Post(AuthController, <<"2fa", "verify">>, SignedIn)
Auth_disableTwoFactor == Post(AuthController, <<"2fa", "disable">>, SignedIn)
Auth_stepUp == Post(AuthController, <<"step-up">>, SignedIn)
Auth_regenerateBackupCodes == Post(AuthController, <<"2fa", "backup-codes", "regenerate">>, SignedIn)
Auth_verifyEmail == Get(AuthController, <<"verify-email">>, Open)
Auth_resendVerification == Post(AuthController, <<"resend-verification">>, Open)
Auth_refresh == Post(AuthController, <<"refresh">>, Open)
Auth_logout == Post(AuthController, <<"logout">>, Open)
Auth_forgotPassword == Post(AuthController, <<"forgot-password">>, Open)
Auth_resetPassword == Post(AuthController, <<"reset-password">>, Open)
Auth_unlockAccount == Post(AuthController, <<"unlock", Param>>, AdminsOnly)
Auth_getRoles == Get(AuthController, <<"admin", "roles">>, ManagesRoles)
Auth_getRoleById == Get(AuthController, <<"admin", "roles", Param>>, ManagesRoles)
Auth_createRole == Post(AuthController, <<"admin", "roles">>, ManagesRoles)
Auth_updateRole == Patch(AuthController, <<"admin", "roles", Param>>, ManagesRoles)
Auth_deleteRole == Delete(AuthController, <<"admin", "roles", Param>>, ManagesRoles)
Auth_assignRole == Patch(AuthController, <<"admin", "users", Param, "role">>, AssignsRoles)

SessionsController == Controller(<<"sessions">>, SignedIn)
Sessions_findAll == Get(SessionsController, <<>>, Unguarded)
Sessions_revoke == Delete(SessionsController, <<Param>>, Unguarded)

PaymentsController == Controller(<<"payments">>, Unguarded)
Payments_create == Post(PaymentsController, <<>>, SignedIn)
Payments_createBulk == Post(PaymentsController, <<"bulk">>, SignedIn)
Payments_exportPayments == Get(PaymentsController, <<"export">>, SignedIn)
Payments_upsertMerchantFeeConfig == Post(PaymentsController, <<"merchant-fee-config", Param>>, AdminsOnly)
Payments_getFeeReport == Get(PaymentsController, <<"merchant-fee-config", Param, "report">>, AdminsOnly)
Payments_findAll == Get(PaymentsController, <<>>, SignedIn)
Payments_findOne == Get(PaymentsController, <<Param>>, SignedIn)
Payments_handleWebhook == Post(PaymentsController, <<"webhook">>, Signed)
Payments_refund == Post(PaymentsController, <<Param, "refund">>, SignedIn)
Payments_cancel == Post(PaymentsController, <<Param, "cancel">>, SignedIn)
Payments_getTimeline == Get(PaymentsController, <<Param, "timeline">>, SignedIn)
Payments_getInvoiceByToken == Get(PaymentsController, <<"invoice", Param>>, Unguarded)
Payments_getInvoice == Get(PaymentsController, <<Param, "invoice">>, SignedIn)
Payments_streamEvents == Get(PaymentsController, <<Param, "events">>, SignedIn)

CustomerPaymentsController == Controller(<<"customers">>, Unguarded)
CustomerPayments_findCustomerPayments == Get(CustomerPaymentsController, <<Param, "payments">>, SignedIn)

CurrenciesController == Controller(<<"currencies">>, Unguarded)
Currencies_getCurrencies == Get(CurrenciesController, <<>>, Unguarded)

PaymentQrController == Controller(<<>>, Unguarded)
PaymentQr_getPaymentQr == Get(PaymentQrController, <<"payments", Param, "qr">>, Unguarded)
PaymentQr_getPaymentLinkQr == Get(PaymentQrController, <<"payment-links", Param, "qr">>, Unguarded)

DisputesController == Controller(<<>>, Unguarded)
Disputes_openDispute == Post(DisputesController, <<"payments", Param, "dispute">>, SignedIn)
Disputes_findAll == Get(DisputesController, <<"disputes">>, SignedIn)
Disputes_findOne == Get(DisputesController, <<"disputes", Param>>, SignedIn)
Disputes_update == Patch(DisputesController, <<"disputes", Param>>, AdminsOnly)

RecurringPaymentsController == Controller(<<"recurring-payments">>, SignedIn)
RecurringPayments_create == Post(RecurringPaymentsController, <<>>, Unguarded)
RecurringPayments_findAll == Get(RecurringPaymentsController, <<>>, Unguarded)
RecurringPayments_findCharges == Get(RecurringPaymentsController, <<Param, "charges">>, Unguarded)
RecurringPayments_findOne == Get(RecurringPaymentsController, <<Param>>, Unguarded)
RecurringPayments_update == Patch(RecurringPaymentsController, <<Param>>, Unguarded)
RecurringPayments_pause == Post(RecurringPaymentsController, <<Param, "pause">>, Unguarded)
RecurringPayments_resume == Post(RecurringPaymentsController, <<Param, "resume">>, Unguarded)
RecurringPayments_cancel == Post(RecurringPaymentsController, <<Param, "cancel">>, Unguarded)

MerchantFeesController == Controller(<<"merchants", "me">>, SignedIn)
MerchantFees_getMyFeeConfig == Get(MerchantFeesController, <<"fee-config">>, Unguarded)
MerchantFees_getMyFeeReport == Get(MerchantFeesController, <<"fee-report">>, Unguarded)

RefundsController == Controller(<<"refunds">>, SignedIn)
Refunds_getReport == Get(RefundsController, <<"report">>, Unguarded)

TestModeController == Controller(<<"test">>, SandboxOnly)
TestMode_simulate == Post(TestModeController, <<"payments", Param, "simulate">>, Unguarded)

MerchantsController == Controller(<<"merchants">>, SignedIn)
Merchants_getProfile == Get(MerchantsController, <<"me">>, Unguarded)
Merchants_updateProfile == Patch(MerchantsController, <<"me">>, Unguarded)
Merchants_updateGeoRestrictions == Patch(MerchantsController, <<"me", "geo-restrictions">>, Unguarded)
Merchants_updateIpAllowlist == Patch(MerchantsController, <<"me", "ip-allowlist">>, Unguarded)
Merchants_getIpAllowlist == Get(MerchantsController, <<"me", "ip-allowlist">>, Unguarded)
Merchants_getBranding == Get(MerchantsController, <<"me", "branding">>, Unguarded)
Merchants_updateBranding == Patch(MerchantsController, <<"me", "branding">>, Unguarded)
Merchants_uploadLogo == Put(MerchantsController, <<"me", "branding", "logo">>, Unguarded)
Merchants_getSettings == Get(MerchantsController, <<"me", "settings">>, Unguarded)
Merchants_updateSettings == Patch(MerchantsController, <<"me", "settings">>, Unguarded)

PaymentLinksController == Controller(<<"payment-links">>, SignedIn)
PaymentLinks_create == Post(PaymentLinksController, <<>>, Unguarded)
PaymentLinks_findAll == Get(PaymentLinksController, <<>>, Unguarded)
PaymentLinks_redeemLink == Post(PaymentLinksController, <<Param, "redeem">>, Open)
PaymentLinks_findByToken == Get(PaymentLinksController, <<Param>>, Open)
PaymentLinks_update == Patch(PaymentLinksController, <<Param>>, Unguarded)
PaymentLinks_deactivate == Delete(PaymentLinksController, <<Param>>, Unguarded)
PaymentLinks_getAnalytics == Get(PaymentLinksController, <<Param, "analytics">>, Unguarded)

EventsController == Controller(<<"events">>, SignedIn)
Events_findAll == Get(EventsController, <<>>, Unguarded)
Events_findOne == Get(EventsController, <<Param>>, Unguarded)

SettlementsController == Controller(<<"settlements">>, SignedIn)
Settlements_upsertConfig == Post(SettlementsController, <<"config">>, Unguarded)
Settlements_findMerchantSettlements == Get(SettlementsController, <<>>, Unguarded)
Settlements_statement == Get(SettlementsController, <<Param, "statement">>, Unguarded)
Settlements_findAdjustments == Get(SettlementsController, <<Param, "adjustments">>, Unguarded)

AdminSettlementsController == Controller(<<"admin", "settlements">>, AdminsOnly)
AdminSettlements_updateSettlementConfig == Patch(AdminSettlementsController, <<"config">>, Unguarded)
AdminSettlements_getReserveConfig == Get(AdminSettlementsController, <<"reserve-config">>, Unguarded)
AdminSettlements_setReserveConfig == Post(AdminSettlementsController, <<"reserve-config">>, Unguarded)
AdminSettlements_findAll == Get(AdminSettlementsController, <<>>, Unguarded)
AdminSettlements_runSettlements == Post(AdminSettlementsController, <<"run">>, Unguarded)

PayoutDestinationsController == Controller(<<"settlements", "destinations">>, SignedIn)
PayoutDestinations_list == Get(PayoutDestinationsController, <<>>, Unguarded)
PayoutDestinations_create == Post(PayoutDestinationsController, <<>>, Unguarded)
PayoutDestinations_update == Patch(PayoutDestinationsController, <<Param>>, Unguarded)
PayoutDestinations_verify == Post(PayoutDestinationsController, <<Param, "verify">>, Unguarded)
PayoutDestinations_verifyFromEmail == Get(PayoutDestinationsController, <<Param, "verify">>, Unguarded)

ApiKeysController == Controller(<<"api-keys">>, SignedIn)
ApiKeys_create == Post(ApiKeysController, <<>>, Unguarded)
ApiKeys_findAll == Get(ApiKeysController, <<>>, Unguarded)
ApiKeys_findById == Get(ApiKeysController, <<Param>>, Unguarded)
ApiKeys_update == Patch(ApiKeysController, <<Param>>, Unguarded)
ApiKeys_revoke == Delete(ApiKeysController, <<Param>>, Unguarded)
ApiKeys_rotate == Post(ApiKeysController, <<Param, "rotate">>, Unguarded)
ApiKeys_getUsageHistory == Get(ApiKeysController, <<Param, "usage">>, Unguarded)

RatesController == Controller(<<"rates">>, Unguarded)
Rates_getRate == Get(RatesController, <<>>, Unguarded)

OnboardingController == Controller(<<"onboarding">>, SignedIn)
Onboarding_submitBusinessInfo == Post(OnboardingController, <<"business-info">>, Unguarded)
Onboarding_submitDocuments == Post(OnboardingController, <<"documents">>, Unguarded)
Onboarding_getStatus == Get(OnboardingController, <<"status">>, Unguarded)
Onboarding_review == Patch(OnboardingController, <<Param, "review">>, AdminsOnly)

ReportsController == Controller(<<"reports", "subscriptions">>, SignedIn)
Reports_create == Post(ReportsController, <<>>, Unguarded)
Reports_findAll == Get(ReportsController, <<>>, Unguarded)
Reports_findOne == Get(ReportsController, <<Param>>, Unguarded)
Reports_update == Patch(ReportsController, <<Param>>, Unguarded)
Reports_remove == Delete(ReportsController, <<Param>>, Unguarded)

CheckoutSessionsController == Controller(<<"checkout", "sessions">>, Unguarded)
CheckoutSessions_create == Post(CheckoutSessionsController, <<>>, SignedIn)
CheckoutSessions_findOne == Get(CheckoutSessionsController, <<Param>>, SignedIn)
CheckoutSessions_expire == Post(CheckoutSessionsController, <<Param, "expire">>, SignedIn)
CheckoutSessions_findAll == Get(CheckoutSessionsController, <<>>, SignedIn)
CheckoutSessions_getPublic == Get(CheckoutSessionsController, <<Param, "public">>, Unguarded)

ExportsController == Controller(<<"exports">>, Unguarded)
Exports_create == Post(ExportsController, <<>>, Unguarded)
Exports_status == Get(ExportsController, <<Param>>, Unguarded)
Exports_download == Get(ExportsController, <<Param, "download">>, Unguarded)

Mounted ==
    <<App_getHello, App_getProfile, Users_create, Users_updateMe, Users_getMe,
      Users_findAll, Users_findOne, Users_update, Users_remove, Users_deleteSelf,
      Users_restore, Users_updateRateLimit, AuditLogs_findAll, Health_liveness,
      Health_ready, Health_health, Stellar_listTransactions, Stellar_signTransaction,
      Stellar_listAssets, Stellar_addTrustline, Stellar_removeTrustline,
      Stellar_getBalances, Stellar_getMode, Stellar_fundTestnetAccount, Webhooks_create,
      Webhooks_findAll, Webhooks_update, Webhooks_remove, Webhooks_sendTest,
      Webhooks_rotateSecret, Webhooks_retryFailedDelivery, Webhooks_replay,
      Webhooks_getReplayProgress, Webhooks_reenable, Auth_register, Auth_login,
      Auth_enableTwoFactor, Auth_verifyTwoFactor, Auth_disableTwoFactor, Auth_stepUp,
      Auth_regenerateBackupCodes, Auth_verifyEmail, Auth_resendVerification, Auth_refresh,
      Auth_logout, Auth_forgotPassword, Auth_resetPassword, Auth_unlockAccount,
      Auth_getRoles, Auth_getRoleById, Auth_createRole, Auth_updateRole, Auth_deleteRole,
      Auth_assignRole, Sessions_findAll, Sessions_revoke, Payments_create,
      Payments_createBulk, Payments_exportPayments, Payments_upsertMerchantFeeConfig,
      Payments_getFeeReport, Payments_findAll, Payments_findOne, Payments_handleWebhook,
      Payments_refund, Payments_cancel, Payments_getTimeline, Payments_getInvoiceByToken,
      Payments_getInvoice, Payments_streamEvents, CustomerPayments_findCustomerPayments,
      Currencies_getCurrencies, PaymentQr_getPaymentQr, PaymentQr_getPaymentLinkQr,
      Disputes_openDispute, Disputes_findAll, Disputes_findOne, Disputes_update,
      RecurringPayments_create, RecurringPayments_findAll, RecurringPayments_findCharges,
      RecurringPayments_findOne, RecurringPayments_update, RecurringPayments_pause,
      RecurringPayments_resume, RecurringPayments_cancel, MerchantFees_getMyFeeConfig,
      MerchantFees_getMyFeeReport, Refunds_getReport, TestMode_simulate,
      Merchants_getProfile, Merchants_updateProfile, Merchants_updateGeoRestrictions,
      Merchants_updateIpAllowlist, Merchants_getIpAllowlist, Merchants_getBranding,
      Merchants_updateBranding, Merchants_uploadLogo, Merchants_getSettings,
      Merchants_updateSettings, PaymentLinks_create, PaymentLinks_findAll,
      PaymentLinks_redeemLink, PaymentLinks_findByToken, PaymentLinks_update,
      PaymentLinks_deactivate, PaymentLinks_getAnalytics, Events_findAll, Events_findOne,
      Settlements_upsertConfig, Settlements_findMerchantSettlements,
      Settlements_statement, Settlements_findAdjustments,
      AdminSettlements_updateSettlementConfig, AdminSettlements_getReserveConfig,
      AdminSettlements_setReserveConfig, AdminSettlements_findAll,
      AdminSettlements_runSettlements, PayoutDestinations_list, PayoutDestinations_create,
      PayoutDestinations_update, PayoutDestinations_verify,
      PayoutDestinations_verifyFromEmail, ApiKeys_create, ApiKeys_findAll,
      ApiKeys_findById, ApiKeys_update, ApiKeys_revoke, ApiKeys_rotate,
      ApiKeys_getUsageHistory, Rates_getRate, Onboarding_submitBusinessInfo,
      Onboarding_submitDocuments, Onboarding_getStatus, Onboarding_review, Reports_create,
      Reports_findAll, Reports_findOne, Reports_update, Reports_remove>>

Unmounted ==
    <<CheckoutSessions_create, CheckoutSessions_findOne, CheckoutSessions_expire,
      CheckoutSessions_findAll, CheckoutSessions_getPublic, Exports_create,
      Exports_status, Exports_download>>

(***************************************************************************)
(* Routing: the first registered endpoint whose verb and path match.       *)
(***************************************************************************)
Matches(e, verb, path) ==
    /\ e.verb = verb
    /\ Len(e.path) = Len(path)
    /\ \A i \in 1 .. Len(path) : e.path[i] \in {Param, path[i]}

\* the last one that matches
AnsweringLast(e) == SelectLastInSeq(Mounted, LAMBDA h : Matches(h, e.verb, e.path))

Answering(e) == SelectInSeq(Mounted, LAMBDA h : Matches(h, e.verb, e.path))

Documented == Range(Mounted \o Unmounted)

NotFound == Endpoint("", Controller(<<>>, Unguarded), <<>>, Open)

\* the handler of a request written for e
HandlerOf == [e \in Documented |-> LET i == Answering(e) IN IF i = 0 THEN NotFound ELSE Mounted[i]]

(* What the handler of e does to users and roles. *)
WorkOf(e) ==
    CASE e = Auth_assignRole -> "assignRole"
      [] e = Auth_createRole -> "createRole"
      [] e = Auth_updateRole -> "updateRole"
      [] e = Auth_deleteRole -> "deleteRole"
      [] e \in {Users_remove, Users_deleteSelf} -> "softDelete"
      [] e = Users_restore -> "restore"
      [] e \in {Users_update, Users_updateMe, Users_updateRateLimit, Auth_unlockAccount} -> "edit"
      [] OTHER -> "none"

(* Whose row the handler of e may be asked for: "me" is the caller's, and  *)
(* PATCH users/:id takes another's from an administrator only.             *)
NamesOf(e) ==
    CASE e \in {Users_updateMe, Users_deleteSelf} -> "own"
      [] e = Users_update -> "own, or any for an administrator"
      [] OTHER -> "any"

(* What a request can be, as far as it matters here: written for e and     *)
(* taken by the handler that matches first, in front of which a JWT guard  *)
(* stands.  The other requests change nothing here.                        *)
RequestsWhere(sandbox) ==
    {[work |-> WorkOf(HandlerOf[e]), names |-> NamesOf(HandlerOf[e]),
      roles |-> IF "roles" \in HandlerOf[e].guards THEN HandlerOf[e].roles ELSE {},
      permissions |-> IF "permissions" \in HandlerOf[e].guards THEN HandlerOf[e].permissions ELSE {},
      astray |-> HandlerOf[e] /= e, admin |-> "admin" \in Range(HandlerOf[e].path)] :
        e \in {d \in Documented : /\ "jwt" \in HandlerOf[d].guards /\ ~HandlerOf[d].public
                                  /\ "testnet" \in HandlerOf[d].guards => sandbox}}
================================================================================
