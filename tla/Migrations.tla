------------------------------ MODULE Migrations ------------------------------
(***************************************************************************)
(* The schema migrations (src/migrations) as TypeORM's migration:run and   *)
(* migration:revert execute them: the pending ones of a release in one     *)
(* transaction, the last one undone by its own down().  A migration is the *)
(* statements of its up and down, a schema the set of its objects; of the  *)
(* rows the application writes in between it holds what a statement may    *)
(* refuse: rows alike in the columns of an index, and rows without a value.*)
(***************************************************************************)
EXTENDS Naturals, FiniteSets, Sequences, SequencesExt

CONSTANTS
    MaxPending   \* bound: migrations a release adds

VARIABLES
    schema,   \* the objects there are, and what the rows are like
    done,     \* the migrations executed are the first ones
    last      \* what the last command came to

vars == <<schema, done, last>>

----------------------------------------------------------------------------
(* Statements.                                                             *)

\* An object of the schema: a table, or a part of the table "of"; types stand alone.
Object(kind, of, name) == [kind |-> kind, of |-> of, name |-> name]
Table(t) == Object("table", "", t)
Columns(t, names) == {Object("column", t, c) : c \in names}
Index(t, name) == Object("index", t, name)
Type(name) == Object("type", "", name)
Enum(name) == Object("enum", "", name)

\* Rows of the table that the unique index would not allow, or without the column.
Alike(t, index) == Object("alike", t, index)
Null(t, c) == Object("null", t, c)

\* needs must be there, refuses must not; adds and drops change the schema; a strict
\* statement fails on what is there already or is not there; without what is in when
\* there is nothing to do.
Statement(needs, adds, drops) ==
    [when |-> {}, needs |-> needs, refuses |-> {}, adds |-> adds, drops |-> drops,
     strict |-> TRUE]

\* IF NOT EXISTS, IF EXISTS and createTable's third argument.
Lenient(st) == [st EXCEPT !.strict = FALSE]

CreateTable(t, names) == Statement({}, {Table(t)} \cup Columns(t, names), {})
AddColumns(t, names) == Statement({Table(t)}, Columns(t, names), {})
AddIndex(t, name, names) == Statement(Columns(t, names), {Index(t, name)}, {})
AddUniqueIndex(t, name, names) ==
    [AddIndex(t, name, names) EXCEPT !.refuses = {Alike(t, name)}]
AddUnique(t, name) ==
    [Statement({Table(t)}, {Index(t, name)}, {}) EXCEPT !.refuses = {Alike(t, name)}]
AddConstraint(t, name, other) ==
    Statement({Table(t), Table(other)}, {Object("constraint", t, name)}, {})
AddType(name) == Statement({}, {Type(name)}, {})
AddLabel(type, value) == Statement({Type(type)}, {Object("label", type, value)}, {})

\* The type of a column's enumeration, which createTable makes unless it is there
\* and dropTable leaves; of interest where its values change later.
AddEnum(name) == Lenient(Statement({}, {Enum(name)}, {}))
AddEnumLabel(name, value) == Statement({Enum(name)}, {Object("label", name, value)}, {})

\* changeColumn to an enumeration that gives no name, of a column of the type old: the
\* new type gets the name TypeORM makes up, and old is dropped.
ReplaceType(t, c, old, new) ==
    [Statement(Columns(t, {c}), {Enum(new)}, {Type(old)}) EXCEPT !.when = {Type(old)}]

DropTable(t) == Statement({}, {}, {Table(t)})
DropColumns(t, names) == Statement({}, {}, Columns(t, names))
DropIndex(t, name) == Statement({}, {}, {Index(t, name)})
DropConstraint(t, name) == Statement({}, {}, {Object("constraint", t, name)})
DropType(name) == Statement({}, {}, {Type(name)})

\* NOT NULL on a column, set and dropped: neither minds how it was, but the rows count.
Require(t, c) ==
    [Lenient(Statement(Columns(t, {c}), {Object("required", t, c)}, {}))
        EXCEPT !.refuses = {Null(t, c)}]
Allow(t, c) == Lenient(Statement(Columns(t, {c}), {}, {Object("required", t, c)}))

\* UPDATE of the rows without a value.
Fill(t, c) == Lenient(Statement(Columns(t, {c}), {}, {Null(t, c)}))

\* createIndex of a "new Index": Index is a decorator, and what it makes has no
\* columns.
IndexByDecorator(t) == Statement({Object("none", t, "")}, {}, {})

\* Tables and indexes share their names.
Relations(s) == {o.name : o \in {p \in s : p.kind \in {"table", "index"}}}

Clash(s, adds) ==
    \/ adds \cap s # {}
    \/ \E o \in adds : o.kind \in {"table", "index"} /\ o.name \in Relations(s)

Fails(s, st) ==
    /\ st.when \subseteq s
    /\ \/ ~(st.needs \subseteq s)
       \/ st.refuses \cap s # {}
       \/ st.strict /\ (Clash(s, st.adds) \/ ~(st.drops \subseteq s))

\* What goes with a table or a type that is dropped.
Owned(s, drops) ==
    {o \in s : \E d \in drops : d.kind \in {"table", "type"} /\ o.of = d.name}

\* A lenient createTable of what is there already does nothing.
Effect(s, st) ==
    IF \/ ~(st.when \subseteq s)
       \/ ~st.strict /\ \E o \in st.adds : o.kind = "table" /\ o \in s
    THEN s
    ELSE (s \ (st.drops \cup Owned(s, st.drops))) \cup st.adds

Nothing == [failed |-> TRUE, schema |-> {}]

\* Statements one after the other; the first that fails fails them all.
Execute(s, sts) ==
    FoldLeft(LAMBDA acc, st : IF acc.failed \/ Fails(acc.schema, st) THEN Nothing
                              ELSE [failed |-> FALSE, schema |-> Effect(acc.schema, st)],
             [failed |-> FALSE, schema |-> s], sts)

\* The same with the failing ones left out.
ExecuteLeniently(s, sts) ==
    FoldLeft(LAMBDA acc, st : IF Fails(acc, st) THEN acc ELSE Effect(acc, st), s, sts)

----------------------------------------------------------------------------
(* The migrations.                                                         *)

CreateIdempotencyKeysTable ==
    [up   |-> <<Lenient(CreateTable("idempotency_keys", {"key", "requestHash", "response",
                    "expiresAt", "createdAt"})),
                IndexByDecorator("idempotency_keys")>>,
     down |-> <<DropTable("idempotency_keys")>>]

CreateRefundsTable ==
    [up   |-> <<AddColumns("payments", {"refundedAmount"}),
                Lenient(AddLabel("payment_status_enum", "PARTIALLY_REFUNDED")),
                Lenient(CreateTable("refunds", {"id", "paymentId", "amount", "reason",
                    "createdAt"})),
                AddConstraint("refunds", "FK_refunds_paymentId", "payments")>>,
     down |-> <<DropTable("refunds"), DropColumns("payments", {"refundedAmount"})>>]

CreatePasswordResetTokensTable ==
    [up   |-> <<Lenient(CreateTable("password_reset_tokens", {"id", "userId", "tokenHash",
                    "expiresAt", "used", "createdAt"})),
                IndexByDecorator("password_reset_tokens"),
                IndexByDecorator("password_reset_tokens"),
                IndexByDecorator("password_reset_tokens")>>,
     down |-> <<DropTable("password_reset_tokens")>>]

AddTwoFactorColumnsToUsers ==
    [up   |-> <<AddColumns("users", {"twoFactorSecret", "twoFactorEnabled"})>>,
     down |-> <<DropColumns("users", {"twoFactorEnabled"}),
                DropColumns("users", {"twoFactorSecret"})>>]

AddAccountLockoutToUsers ==
    [up   |-> <<AddColumns("users", {"failedLoginAttempts"}),
                AddColumns("users", {"lockedUntil"})>>,
     down |-> <<DropColumns("users", {"lockedUntil"}),
                DropColumns("users", {"failedLoginAttempts"})>>]

AddPaymentCancellation ==
    [up   |-> <<AddColumns("payments", {"cancelledAt"}),
                AddLabel("payments_status_enum", "CANCELLED")>>,
     down |-> <<DropColumns("payments", {"cancelledAt"})>>]

AddIndexToRefreshTokens ==
    [up   |-> <<Lenient(AddIndex("refresh_tokens", "IDX_refresh_tokens_token", {"token"}))>>,
     down |-> <<Lenient(DropIndex("refresh_tokens", "IDX_refresh_tokens_token"))>>]

CreateWebhookDeliveriesTable ==
    [up   |-> <<Lenient(AddColumns("payments", {"callbackUrl"})),
                AddType("webhook_delivery_status_enum"),
                Lenient(CreateTable("webhook_deliveries", {"id", "paymentId", "callbackUrl",
                    "payload", "status", "attemptCount", "lastAttemptAt", "nextRetryAt",
                    "lastStatusCode", "lastError", "createdAt", "updatedAt"})),
                AddConstraint("webhook_deliveries", "FK_webhook_deliveries_paymentId",
                    "payments"),
                AddIndex("webhook_deliveries", "IDX_webhook_deliveries_status_nextRetryAt",
                    {"status", "nextRetryAt"})>>,
     down |-> <<DropTable("webhook_deliveries"),
                Lenient(DropType("webhook_delivery_status_enum")),
                Lenient(DropColumns("payments", {"callbackUrl"}))>>]

AddNameToUsers ==
    [up   |-> <<AddColumns("users", {"name"})>>,
     down |-> <<DropColumns("users", {"name"})>>]

AddPaymentAndUserIndexes ==
    [up   |-> <<Lenient(AddIndex("payments", "IDX_payments_status", {"status"})),
                Lenient(AddIndex("payments", "IDX_payments_createdAt", {"createdAt"})),
                Lenient(AddIndex("payments", "IDX_payments_externalReference",
                    {"externalReference"})),
                Lenient(AddIndex("users", "IDX_users_email", {"email"}))>>,
     down |-> <<Lenient(DropIndex("payments", "IDX_payments_status")),
                Lenient(DropIndex("payments", "IDX_payments_createdAt")),
                Lenient(DropIndex("payments", "IDX_payments_externalReference")),
                Lenient(DropIndex("users", "IDX_users_email"))>>]

AddMetadataToPayments ==
    [up   |-> <<AddColumns("payments", {"metadata"})>>,
     down |-> <<DropColumns("payments", {"metadata"})>>]

CreatePaymentLinksTable ==
    [up   |-> <<Lenient(CreateTable("payment_links", {"id", "token", "amount", "currency",
                    "description", "expiresAt", "isActive", "views", "completions",
                    "merchantId", "createdAt", "updatedAt"})),
                Require("payment_links", "amount"),
                AddUniqueIndex("payment_links", "UQ_payment_links_token", {"token"})>>,
     down |-> <<DropTable("payment_links")>>]

CreateSettlementsTable ==
    [up   |-> <<AddType("settlement_schedule_enum"),
                Lenient(CreateTable("merchant_settlement_configs", {"id", "userId",
                    "schedule", "currency", "lastSettledAt", "createdAt", "updatedAt"})),
                AddUniqueIndex("merchant_settlement_configs",
                    "UQ_merchant_settlement_config_userId", {"userId"}),
                Lenient(CreateTable("settlements", {"id", "merchantId", "schedule",
                    "totalAmount", "currency", "paymentIds", "processedAt", "createdAt",
                    "updatedAt"})),
                AddIndex("settlements", "IDX_settlements_merchantId", {"merchantId"})>>,
     down |-> <<DropTable("settlements"),
                DropTable("merchant_settlement_configs"),
                DropType("settlement_schedule_enum")>>]

CreateWebhookEndpointsTable ==
    [up   |-> <<Lenient(CreateTable("webhook_endpoints", {"id", "merchantId", "url", "events",
                    "isActive", "secret", "createdAt", "updatedAt"})),
                IndexByDecorator("webhook_endpoints")>>,
     down |-> <<DropTable("webhook_endpoints")>>]

CreateApiKeysTable ==
    [up   |-> <<AddType("api_key_scope"),
                AddType("api_key_environment"),
                Lenient(CreateTable("api_keys", {"id", "name", "keyHash", "keyPrefix",
                    "userId", "scope", "environment", "expiresAt", "lastUsedAt", "isActive",
                    "createdAt", "updatedAt"})),
                Require("api_keys", "scope"),
                AddIndex("api_keys", "IDX_api_keys_userId", {"userId"})>>,
     down |-> <<DropTable("api_keys"),
                Lenient(DropType("api_key_scope")),
                Lenient(DropType("api_key_environment"))>>]

AddPaymentEmailFieldsAndEmailLog ==
    [up   |-> <<AddType("email_log_status"),
                AddType("email_event_type"),
                Lenient(AddColumns("payments", {"merchantId", "merchantEmail",
                    "payerEmail"})),
                AddIndex("payments", "IDX_payments_merchantId", {"merchantId"}),
                Lenient(CreateTable("email_logs", {"id", "eventType", "recipientEmail",
                    "recipientRole", "subject", "status", "errorMessage", "paymentId",
                    "refundId", "sentAt"})),
                AddIndex("email_logs", "IDX_email_logs_eventType", {"eventType"}),
                AddIndex("email_logs", "IDX_email_logs_recipientEmail", {"recipientEmail"}),
                AddIndex("email_logs", "IDX_email_logs_paymentId", {"paymentId"}),
                AddIndex("email_logs", "IDX_email_logs_sentAt", {"sentAt"})>>,
     down |-> <<DropTable("email_logs"),
                Lenient(DropType("email_log_status")),
                Lenient(DropType("email_event_type")),
                DropIndex("payments", "IDX_payments_merchantId"),
                Lenient(DropColumns("payments", {"merchantId", "merchantEmail",
                    "payerEmail"}))>>]

CreateMerchantBrandingTable ==
    [up   |-> <<CreateTable("merchant_branding", {"id", "merchantId", "displayName", "logo",
                    "primaryColor", "supportEmail", "supportUrl", "createdAt", "updatedAt"}),
                AddUnique("merchant_branding", "idx_merchant_branding_merchant_id"),
                AddIndex("merchant_branding", "idx_merchant_branding_merchant_id",
                    {"merchantId"})>>,
     down |-> <<DropTable("merchant_branding")>>]

CreateMerchantSettingsTable ==
    [up   |-> <<CreateTable("merchant_settings", {"id", "merchantId", "remindersEnabled",
                    "reminderOffsets", "createdAt", "updatedAt"}),
                AddUnique("merchant_settings", "idx_merchant_settings_merchant_id"),
                AddIndex("merchant_settings", "idx_merchant_settings_merchant_id",
                    {"merchantId"})>>,
     down |-> <<DropTable("merchant_settings")>>]

AddDueDateAndRemindersToPayments ==
    [up   |-> <<AddColumns("payments", {"dueDate"}),
                AddIndex("payments", "idx_payments_due_date", {"dueDate"}),
                AddColumns("payments", {"remindersEnabled"}),
                Lenient(AddLabel("payment_status_enum", "OVERDUE"))>>,
     down |-> <<DropIndex("payments", "idx_payments_due_date"),
                DropColumns("payments", {"dueDate"}),
                DropColumns("payments", {"remindersEnabled"})>>]

CreateInvoiceRemindersTable ==
    [up   |-> <<AddType("invoice_reminder_type_enum"),
                CreateTable("invoice_reminders", {"id", "paymentId", "type", "sentAt",
                    "createdAt"}),
                AddConstraint("invoice_reminders", "fk_invoice_reminders_payment",
                    "payments"),
                AddUniqueIndex("invoice_reminders", "idx_invoice_reminders_payment_type",
                    {"paymentId", "type"}),
                AddIndex("invoice_reminders", "idx_invoice_reminders_payment_id",
                    {"paymentId"})>>,
     down |-> <<DropTable("invoice_reminders"), DropType("invoice_reminder_type_enum")>>]

CreateCheckoutSessionsTable ==
    [up   |-> <<AddType("checkout_session_status_enum"),
                CreateTable("checkout_sessions", {"id", "publicId", "merchantId", "lineItems",
                    "currency", "total", "customerId", "customerEmail", "successUrl",
                    "cancelUrl", "expiresAt", "status", "paymentId", "createdAt",
                    "updatedAt"}),
                AddUnique("checkout_sessions", "idx_checkout_sessions_merchant_id"),
                AddUnique("checkout_sessions", "idx_checkout_sessions_public_id"),
                AddIndex("checkout_sessions", "idx_checkout_sessions_merchant_id",
                    {"merchantId"}),
                AddIndex("checkout_sessions", "idx_checkout_sessions_public_id",
                    {"publicId"}),
                AddIndex("checkout_sessions", "idx_checkout_sessions_status", {"status"}),
                AddIndex("checkout_sessions", "idx_checkout_sessions_expires_at",
                    {"expiresAt"})>>,
     down |-> <<DropTable("checkout_sessions"), DropType("checkout_session_status_enum")>>]

CreatePaymentLinkEventsTable ==
    [up   |-> <<AddType("payment_link_event_type_enum"),
                CreateTable("payment_link_events", {"id", "paymentLinkId", "type", "ipHash",
                    "userAgent", "createdAt"}),
                AddConstraint("payment_link_events", "fk_payment_link_events_link",
                    "payment_links"),
                AddIndex("payment_link_events", "idx_payment_link_events_link_id",
                    {"paymentLinkId"}),
                AddIndex("payment_link_events", "idx_payment_link_events_created_at",
                    {"createdAt"}),
                AddIndex("payment_link_events", "idx_payment_link_events_link_created",
                    {"paymentLinkId", "createdAt"})>>,
     down |-> <<DropTable("payment_link_events"), DropType("payment_link_event_type_enum")>>]

AddPaymentExpiry ==
    [up   |-> <<AddColumns("payments", {"expiresAt", "expiredAt"}),
                AddLabel("payments_status_enum", "EXPIRED")>>,
     down |-> <<DropColumns("payments", {"expiredAt"}),
                DropColumns("payments", {"expiresAt"})>>]

CreateDisputesTable ==
    [up   |-> <<AddType("dispute_status"),
                AddType("dispute_reason"),
                Lenient(CreateTable("disputes", {"id", "paymentId", "status", "reason",
                    "description", "disputedAmount", "openedBy", "resolutionNotes",
                    "resolvedBy", "merchantEmail", "payerEmail", "createdAt", "updatedAt",
                    "resolvedAt", "closedAt"})),
                AddIndex("disputes", "IDX_disputes_paymentId", {"paymentId"}),
                AddIndex("disputes", "IDX_disputes_status", {"status"}),
                AddIndex("disputes", "IDX_disputes_createdAt", {"createdAt"}),
                AddConstraint("disputes", "fk_disputes_payment", "payments")>>,
     down |-> <<Lenient(DropConstraint("disputes", "FK_disputes_payment")),
                DropIndex("disputes", "IDX_disputes_createdAt"),
                DropIndex("disputes", "IDX_disputes_status"),
                DropIndex("disputes", "IDX_disputes_paymentId"),
                DropTable("disputes"),
                Lenient(DropType("dispute_reason")),
                Lenient(DropType("dispute_status"))>>]

AddRateLimitColumnsToUsers ==
    [up   |-> <<AddColumns("users", {"rateLimitEnabled", "rateLimitLimit", "rateLimitTtl"})>>,
     down |-> <<DropColumns("users", {"rateLimitEnabled", "rateLimitLimit", "rateLimitTtl"})>>]

CreatePaymentSplitsTable ==
    [up   |-> <<AddLabel("payments_status_enum", "PARTIALLY_COMPLETED"),
                Lenient(CreateTable("payment_splits", {"id", "paymentId", "recipientAddress",
                    "percentage", "amount", "status", "stellarTransactionHash",
                    "failureReason", "createdAt", "updatedAt"})),
                AddIndex("payment_splits", "idx_payment_splits_payment", {"paymentId"})>>,
     down |-> <<DropTable("payment_splits")>>]

CreateMerchantGeoRestrictionsTable ==
    [up   |-> <<Lenient(CreateTable("merchant_geo_restrictions", {"id", "merchantId",
                    "allowedCountries", "blockedCountries", "bypassInTestMode", "createdAt",
                    "updatedAt"}))>>,
     down |-> <<DropTable("merchant_geo_restrictions")>>]

AddInitiatedByToRefunds ==
    [up   |-> <<AddColumns("refunds", {"initiatedBy"})>>,
     down |-> <<DropColumns("refunds", {"initiatedBy"})>>]

CreateStellarAssetsTable ==
    [up   |-> <<CreateTable("stellar_assets", {"id", "merchantId", "assetCode", "assetIssuer",
                    "isAccepted", "trustlineAddedAt", "createdAt", "updatedAt"}),
                AddIndex("stellar_assets", "IDX_stellar_assets_merchantId", {"merchantId"})>>,
     down |-> <<DropTable("stellar_assets")>>]

AddReasonCodeToRefunds ==
    [up   |-> <<AddType("refunds_reasonCode_enum"), AddColumns("refunds", {"reasonCode"})>>,
     down |-> <<DropColumns("refunds", {"reasonCode"}), DropType("refunds_reasonCode_enum")>>]

CreateRolesTable ==
    [up   |-> <<CreateTable("roles", {"id", "name", "permissions", "description", "createdAt",
                    "updatedAt"})>>,
     down |-> <<DropTable("roles")>>]

AddRoleIdToUsers ==
    [up   |-> <<AddColumns("users", {"roleId"})>>,
     down |-> <<DropColumns("users", {"roleId"})>>]

CreateReportSubscriptionsTable ==
    [up   |-> <<AddType("report_subscriptions_frequency_enum"),
                CreateTable("report_subscriptions", {"id", "merchantId", "frequency",
                    "recipients", "timezone", "includeCsv", "isActive", "lastSentAt",
                    "createdAt", "updatedAt"}),
                AddIndex("report_subscriptions", "IDX_report_subscriptions_merchantId",
                    {"merchantId"})>>,
     down |-> <<DropIndex("report_subscriptions", "IDX_report_subscriptions_merchantId"),
                DropTable("report_subscriptions"),
                DropType("report_subscriptions_frequency_enum")>>]

CreateRecurringPaymentsTable ==
    [up   |-> <<AddEnum("recurring_payments_status_enum"),
                Lenient(CreateTable("recurring_payments", {"id", "amount", "currency",
                    "interval", "status", "description", "merchantId", "merchantEmail",
                    "payerEmail", "callbackUrl", "metadata", "createdBy", "nextRunAt",
                    "lastRunAt", "endAt", "maxOccurrences", "occurrences",
                    "consecutiveFailures", "cancelledAt", "createdAt", "updatedAt"})),
                AddIndex("recurring_payments", "idx_recurring_payments_due", {"status",
                    "nextRunAt"})>>,
     down |-> <<DropTable("recurring_payments")>>]

CreateApiKeyUsageTable ==
    [up   |-> <<Lenient(CreateTable("api_key_usage", {"id", "apiKeyId", "endpoint", "method",
                    "sourceIp", "userAgent", "statusCode", "createdAt"})),
                AddIndex("api_key_usage", "IDX_api_key_usage_apiKeyId", {"apiKeyId"}),
                AddIndex("api_key_usage", "IDX_api_key_usage_createdAt", {"createdAt"}),
                AddConstraint("api_key_usage", "FK_api_key_usage_apiKey", "api_keys")>>,
     down |-> <<DropTable("api_key_usage")>>]

CreateMerchantIpAllowlistsTable ==
    [up   |-> <<Lenient(CreateTable("merchant_ip_allowlists", {"id", "merchantId",
                    "allowedIps", "createdAt", "updatedAt"}))>>,
     down |-> <<DropTable("merchant_ip_allowlists")>>]

AddPaymentLinkIdToPayments ==
    [up   |-> <<AddColumns("payments", {"paymentLinkId"})>>,
     down |-> <<DropColumns("payments", {"paymentLinkId"})>>]

CreateAuditLogsTable ==
    [up   |-> <<Lenient(CreateTable("audit_logs", {"id", "actorId", "actorType", "action",
                    "resourceType", "resourceId", "ipAddress", "userAgent", "metadata",
                    "timestamp"})),
                AddIndex("audit_logs", "idx_audit_logs_actorId", {"actorId"}),
                AddIndex("audit_logs", "idx_audit_logs_action", {"action"}),
                AddIndex("audit_logs", "idx_audit_logs_resourceType", {"resourceType"}),
                AddIndex("audit_logs", "idx_audit_logs_timestamp", {"timestamp"})>>,
     down |-> <<DropTable("audit_logs")>>]

AddAllowedIpsToApiKeys ==
    [up   |-> <<AddColumns("api_keys", {"allowedIps"})>>,
     down |-> <<DropColumns("api_keys", {"allowedIps"})>>]

\* Mutant: the down forgets the index that the up replaced.
CompositeUniqueIndexForgotten ==
    [up   |-> <<DropIndex("merchant_settlement_configs",
                    "UQ_merchant_settlement_config_userId"),
                AddUniqueIndex("merchant_settlement_configs",
                    "UQ_merchant_settlement_config_userId_currency", {"userId", "currency"})>>,
     down |-> <<DropIndex("merchant_settlement_configs",
                    "UQ_merchant_settlement_config_userId_currency")>>]

AddCompositeUniqueIndexToMerchantSettlementConfigs ==
    [up   |-> <<DropIndex("merchant_settlement_configs",
                    "UQ_merchant_settlement_config_userId"),
                AddUniqueIndex("merchant_settlement_configs",
                    "UQ_merchant_settlement_config_userId_currency", {"userId", "currency"})>>,
     down |-> <<DropIndex("merchant_settlement_configs",
                    "UQ_merchant_settlement_config_userId_currency"),
                AddUniqueIndex("merchant_settlement_configs",
                    "UQ_merchant_settlement_config_userId", {"userId"})>>]

AddInvoiceTokenToPayments ==
    [up   |-> <<Lenient(AddColumns("payments", {"invoiceToken"})),
                Lenient(AddUniqueIndex("payments", "IDX_payments_invoiceToken", {"invoiceToken"}))>>,
     down |-> <<Lenient(DropIndex("payments", "IDX_payments_invoiceToken")),
                Lenient(DropColumns("payments", {"invoiceToken"}))>>]

NormalizeUserEmails ==
    [up   |-> <<>>,
     down |-> <<>>]

AddFlexibleAmountToPaymentLinks ==
    [up   |-> <<Allow("payment_links", "amount"),
                Lenient(AddColumns("payment_links", {"flexibleAmount"})),
                Lenient(AddColumns("payment_links", {"minAmount"}))>>,
     down |-> <<Lenient(DropColumns("payment_links", {"minAmount"})),
                Lenient(DropColumns("payment_links", {"flexibleAmount"})),
                Fill("payment_links", "amount"),
                Require("payment_links", "amount")>>]

CreatePasswordHistoryTable ==
    [up   |-> <<CreateTable("password_history", {"id", "userId", "passwordHash",
                    "createdAt"}),
                AddConstraint("password_history", "FK_password_history_userId", "users"),
                AddIndex("password_history", "IDX_password_history_userId_createdAt",
                    {"userId", "createdAt"})>>,
     down |-> <<DropTable("password_history")>>]

AddGranularScopesToApiKeys ==
    [up   |-> <<AddColumns("api_keys", {"scopes"}),
                ReplaceType("api_keys", "scope", "api_key_scope", "api_keys_scope_enum"),
                Allow("api_keys", "scope")>>,
     down |-> <<DropColumns("api_keys", {"scopes"}),
                ReplaceType("api_keys", "scope", "api_key_scope", "api_keys_scope_enum"),
                Require("api_keys", "scope")>>]

AddMaxCompletionsToPaymentLinks ==
    [up   |-> <<Lenient(AddColumns("payment_links", {"maxCompletions"}))>>,
     down |-> <<Lenient(DropColumns("payment_links", {"maxCompletions"}))>>]

AddRecurringPaymentNotificationFields ==
    [up   |-> <<AddColumns("recurring_payments", {"notifyDaysBefore"}),
                AddColumns("recurring_payments", {"lastNotifiedCycle"})>>,
     down |-> <<DropColumns("recurring_payments", {"lastNotifiedCycle"}),
                DropColumns("recurring_payments", {"notifyDaysBefore"})>>]

CreatePayoutDestinations ==
    [up   |-> <<CreateTable("payout_destinations", {"id", "merchantId", "label",
                    "stellarAddress", "assetCode", "isDefault", "verifiedAt",
                    "coolingOffUntil", "verificationTokenHash", "verificationTokenExpiresAt",
                    "createdAt"}),
                AddUniqueIndex("payout_destinations",
                    "UQ_payout_destinations_merchant_asset_address", {"merchantId",
                    "assetCode", "stellarAddress"}),
                AddColumns("merchant_settlement_configs", {"destinationId"}),
                AddColumns("settlements", {"payoutDestinationId"}),
                AddConstraint("merchant_settlement_configs",
                    "FK_merchant_settlement_configs_destination", "payout_destinations"),
                AddConstraint("settlements", "FK_settlements_payout_destination",
                    "payout_destinations")>>,
     down |-> <<DropConstraint("settlements", "FK_settlements_payout_destination"),
                DropColumns("settlements", {"payoutDestinationId"}),
                DropConstraint("merchant_settlement_configs",
                    "FK_merchant_settlement_configs_destination"),
                DropColumns("merchant_settlement_configs", {"destinationId"}),
                DropTable("payout_destinations")>>]

CreateEventsTable ==
    [up   |-> <<CreateTable("events", {"id", "merchantId", "type", "payload", "createdAt"}),
                AddIndex("events", "idx_events_merchant_id", {"merchantId"}),
                AddIndex("events", "idx_events_type", {"type"}),
                AddIndex("events", "idx_events_created_at", {"createdAt"})>>,
     down |-> <<DropIndex("events", "idx_events_created_at"),
                DropIndex("events", "idx_events_type"),
                DropIndex("events", "idx_events_merchant_id"),
                DropTable("events")>>]

AddWebhookEndpointFailureTracking ==
    [up   |-> <<AddColumns("webhook_endpoints", {"consecutiveFailures"}),
                AddColumns("webhook_endpoints", {"lastFailureAt"}),
                AddColumns("webhook_endpoints", {"disabledReason"})>>,
     down |-> <<DropColumns("webhook_endpoints", {"disabledReason"}),
                DropColumns("webhook_endpoints", {"lastFailureAt"}),
                DropColumns("webhook_endpoints", {"consecutiveFailures"})>>]

AddTransactionHashToSettlements ==
    [up   |-> <<AddColumns("settlements", {"transactionHash"})>>,
     down |-> <<DropColumns("settlements", {"transactionHash"})>>]

AddCustomerIdToPayments ==
    [up   |-> <<AddColumns("payments", {"customerId"}),
                AddIndex("payments", "IDX_payments_customerId_createdAt", {"customerId",
                    "createdAt"})>>,
     down |-> <<DropIndex("payments", "IDX_payments_customerId_createdAt"),
                DropColumns("payments", {"customerId"})>>]

AddRecurringPaymentTrials ==
    [up   |-> <<Lenient(AddEnumLabel("recurring_payments_status_enum", "trialing")),
                AddColumns("recurring_payments", {"trialDays", "trialEndsAt",
                    "trialEndingNotifiedAt"})>>,
     down |-> <<DropColumns("recurring_payments", {"trialEndingNotifiedAt", "trialEndsAt",
                    "trialDays"})>>]

AddRecurringPaymentCharges ==
    [up   |-> <<AddColumns("payments", {"recurringPaymentId"}),
                AddConstraint("payments", "FK_payments_recurringPaymentId_recurring_payments",
                    "recurring_payments"),
                AddIndex("payments", "IDX_payments_recurringPaymentId",
                    {"recurringPaymentId"}),
                CreateTable("recurring_payment_charges", {"id", "recurringPaymentId",
                    "cycleNumber", "paymentId", "amount", "status", "failureReason",
                    "attemptedAt"}),
                AddConstraint("recurring_payment_charges",
                    "FK_recurring_payment_charges_plan", "recurring_payments"),
                AddConstraint("recurring_payment_charges",
                    "FK_recurring_payment_charges_payment", "payments"),
                AddIndex("recurring_payment_charges",
                    "IDX_recurring_payment_charges_plan_attempted", {"recurringPaymentId",
                    "attemptedAt"})>>,
     down |-> <<DropTable("recurring_payment_charges"),
                DropIndex("payments", "IDX_payments_recurringPaymentId"),
                DropConstraint("payments",
                    "FK_payments_recurringPaymentId_recurring_payments"),
                DropColumns("payments", {"recurringPaymentId"})>>]

AddWebhookEventReplays ==
    [up   |-> <<AddColumns("webhook_deliveries", {"replayId"}),
                AddIndex("webhook_deliveries", "IDX_webhook_deliveries_replayId",
                    {"replayId"}),
                CreateTable("webhook_replays", {"id", "endpointId", "merchantId",
                    "totalEvents", "status", "failureReason", "createdAt"}),
                AddConstraint("webhook_replays", "FK_webhook_replays_endpoint",
                    "webhook_endpoints"),
                AddIndex("webhook_replays", "IDX_webhook_replays_merchant_createdAt",
                    {"merchantId", "createdAt"})>>,
     down |-> <<DropTable("webhook_replays"),
                DropIndex("webhook_deliveries", "IDX_webhook_deliveries_replayId"),
                DropColumns("webhook_deliveries", {"replayId"})>>]

----------------------------------------------------------------------------
(* The commands.                                                           *)

\* By timestamp.
All == <<
    CreateIdempotencyKeysTable, CreateRefundsTable, CreatePasswordResetTokensTable,
    AddTwoFactorColumnsToUsers, AddAccountLockoutToUsers, AddPaymentCancellation,
    AddIndexToRefreshTokens, CreateWebhookDeliveriesTable, AddNameToUsers,
    AddPaymentAndUserIndexes, AddMetadataToPayments, CreatePaymentLinksTable,
    CreateSettlementsTable, CreateWebhookEndpointsTable, CreateApiKeysTable,
    AddPaymentEmailFieldsAndEmailLog, CreateMerchantBrandingTable,
    CreateMerchantSettingsTable, AddDueDateAndRemindersToPayments,
    CreateInvoiceRemindersTable, CreateCheckoutSessionsTable, CreatePaymentLinkEventsTable,
    AddPaymentExpiry, CreateDisputesTable, AddRateLimitColumnsToUsers,
    CreatePaymentSplitsTable, CreateMerchantGeoRestrictionsTable, AddInitiatedByToRefunds,
    CreateStellarAssetsTable, AddReasonCodeToRefunds, CreateRolesTable, AddRoleIdToUsers,
    CreateReportSubscriptionsTable, CreateRecurringPaymentsTable, CreateApiKeyUsageTable,
    CreateMerchantIpAllowlistsTable, AddPaymentLinkIdToPayments, CreateAuditLogsTable,
    AddAllowedIpsToApiKeys, AddCompositeUniqueIndexToMerchantSettlementConfigs,
    AddInvoiceTokenToPayments, NormalizeUserEmails, AddFlexibleAmountToPaymentLinks,
    CreatePasswordHistoryTable, AddGranularScopesToApiKeys, AddMaxCompletionsToPaymentLinks,
    AddRecurringPaymentNotificationFields, CreatePayoutDestinations, CreateEventsTable,
    AddWebhookEndpointFailureTracking, AddTransactionHashToSettlements,
    AddCustomerIdToPayments, AddRecurringPaymentTrials, AddRecurringPaymentCharges,
    AddWebhookEventReplays>>

\* Neighbours of the same timestamp: their order is that of the file names.
Ties == {16, 23, 25, 30, 32, 37, 39, 40, 41, 43, 46, 47}

\* What no migration creates was there before the first.
Base ==
    {Table("payments"), Table("users"), Table("refresh_tokens"),
     Type("payments_status_enum"), Type("payment_status_enum")}
    \cup Columns("payments", {"id", "status", "createdAt", "externalReference"})
    \cup Columns("users", {"id", "email"}) \cup Columns("refresh_tokens", {"id", "token"})

\* The schema the first n migrations are meant to make.
Made[n \in 0..Len(All)] ==
    IF n = 0 THEN Base ELSE ExecuteLeniently(Made[n - 1], All[n].up)

Init == schema = Base /\ done = 0 /\ last = "none"

\* migration:run: the pending migrations of a release, all or none.
Migrate(n) ==
    LET result == Execute(schema, FlattenSeq([i \in 1..n |-> All[done + i].up]))
    IN  /\ done + n <= Len(All)
        /\ IF result.failed
           THEN schema' = schema /\ done' = done /\ last' = "not migrated"
           ELSE schema' = result.schema /\ done' = done + n /\ last' = "migrated"

\* A migration that fails is made up for by hand, and recorded as executed.
MigrateByHand ==
    /\ last = "not migrated" /\ done < Len(All)
    /\ schema' = ExecuteLeniently(schema, All[done + 1].up)
    /\ done' = done + 1
    /\ last' = "by hand"

\* migration:revert
Revert ==
    LET result == Execute(schema, All[done].down)
    IN  /\ done > 0
        /\ IF result.failed
           THEN schema' = schema /\ done' = done /\ last' = "not reverted"
           ELSE schema' = result.schema /\ done' = done - 1 /\ last' = "reverted"

\* What the service writes that a statement may refuse, where the schema allows it.
Insert(o) ==
    /\ Table(o.of) \in schema
    /\ o.kind = "alike" => Index(o.of, o.name) \notin schema
    /\ o.kind = "null" => Object("required", o.of, o.name) \notin schema
    /\ schema' = schema \cup {o}
    /\ UNCHANGED <<done, last>>

\* upsertConfig of a merchant's second currency
SecondCurrency ==
    Insert(Alike("merchant_settlement_configs", "UQ_merchant_settlement_config_userId"))

\* A link of a flexible amount, which has none of its own.
FlexibleLink == Insert(Null("payment_links", "amount"))

\* PATCH of an API key whose scope is null, which IsOptional lets pass.
ScopelessKey == Insert(Null("api_keys", "scope"))

Next ==
    \/ \E n \in 1..MaxPending : Migrate(n)
    \/ MigrateByHand
    \/ Revert
    \/ SecondCurrency
    \/ FlexibleLink
    \/ ScopelessKey

Spec == Init /\ [][Next]_vars

----------------------------------------------------------------------------
(* Properties.                                                             *)

Kinds == {"table", "column", "index", "constraint", "type", "enum", "label",
          "required", "alike", "null"}

TypeOK ==
    /\ done \in 0..Len(All)
    /\ \A o \in schema : o.kind \in Kinds
    /\ last \in {"none", "migrated", "not migrated", "by hand", "reverted", "not reverted"}

\* What a revert has to take back.  dropTable and PostgreSQL keep enumerations and their
\* values, and AddGranularScopesToApiKeys replaces the type of a key's scope for good.
Structure(s) ==
    {o \in s : o.kind \notin {"enum", "label", "alike", "null"}} \ {Type("api_key_scope")}

\* The type made up for a key's scope outlives the table, so that once that is made anew
\* the column cannot be changed again.
ScopeTypesMeet == {Type("api_key_scope"), Enum("api_keys_scope_enum")} \subseteq schema

\* However often releases are migrated and reverted, a revert takes back just what its
\* up made, and it fails only on rows written since that the old schema does not
\* allow, a merchant's second currency or a key without a scope, or where the type
\* made up for a key's scope is still there from a first time.
RevertRestores ==
    /\ Structure(schema) = Structure(Made[done])
    /\ last = "not reverted" =>
           \/ \E st \in ToSet(All[done].down) : st.refuses \cap schema # {}
           \/ All[done] = AddGranularScopesToApiKeys /\ ScopeTypesMeet

\* Migrations of the same timestamp make the same schema in either order.
TiesCommute ==
    done \in Ties =>
        ExecuteLeniently(ExecuteLeniently(Made[done - 1], All[done + 1].up), All[done].up)
            = Made[done + 1]

\* "Run database migrations" (CONTRIBUTING.md:38): the migrations of a release can
\* be run.
MigrationsRun == last # "not migrated"
=============================================================================
