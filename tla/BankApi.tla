------------------------------ MODULE BankApi ------------------------------
(***************************************************************************)
(* The services as the web front ends see them: which route each           *)
(* controller serves with which method, what the method reads or changes,  *)
(* and which roles the route's guard lets through.  A method is one step   *)
(* here: what happens inside is the subject of MoneyMovement,              *)
(* ScheduledTransfers, Sessions, AccessControl and their siblings.         *)
(***************************************************************************)
EXTENDS PortalTables

(***************************************************************************)
(* account-service.                                                        *)
(***************************************************************************)

\* activate, restrict and mark-dormant call assertStaff; the others leave it
\* to the permission, or let the owner through.
AccountsController ==
     ("GET /accounts" :> Permitted("accounts.list", {"accounts:read"}))
  @@ ("GET /accounts/:id" :> Permitted("accounts.get", {"accounts:read"}))
  @@ ("POST /accounts" :> Permitted("accounts.open", {"accounts:create"}))
  @@ ("POST /accounts/:id/activate" :> ForStaff("accounts.transition", {"accounts:update"}))
  @@ ("POST /accounts/:id/freeze" :> Permitted("accounts.transition", {"accounts:freeze"}))
  @@ ("POST /accounts/:id/unfreeze" :> Permitted("accounts.transition", {"accounts:unfreeze"}))
  @@ ("POST /accounts/:id/close" :> Permitted("accounts.transition", {"accounts:close"}))
  @@ ("POST /accounts/:id/restrict" :> ForStaff("accounts.transition", {"accounts:freeze"}))
  @@ ("POST /accounts/:id/unrestrict" :> Permitted("accounts.transition", {"accounts:unfreeze"}))
  @@ ("POST /accounts/:id/mark-dormant" :> ForStaff("accounts.transition", {"accounts:update"}))
  @@ ("POST /accounts/:id/reactivate" :> Permitted("accounts.transition", {"accounts:update"}))

BeneficiariesController ==
     ("GET /beneficiaries" :> Permitted("beneficiaries.list", {"beneficiaries:read"}))
  @@ ("POST /beneficiaries" :> Permitted("beneficiaries.create", {"beneficiaries:create"}))
  @@ ("PATCH /beneficiaries/:id" :> Permitted("beneficiaries.update", {"beneficiaries:update"}))
  @@ ("POST /beneficiaries/:id/verify" :> Permitted("beneficiaries.verify", {"beneficiaries:update"}))
  @@ ("DELETE /beneficiaries/:id" :> Permitted("beneficiaries.delete", {"beneficiaries:delete"}))

ConsentController ==
     ("GET /customers/me/consents" :> Permitted("consents.current", {"customers:read"}))
  @@ ("POST /customers/me/consents" :> Permitted("consents.record", {"customers:update"}))

\* The status route is used by neither front end.
CustomerProfileController ==
     ("GET /customers/me" :> Permitted("profile.get", {"customers:read"}))
  @@ ("PATCH /customers/me" :> Permitted("profile.update", {"customers:update"}))
  @@ ("PATCH /customers/:id/status" :> Permitted("profile.setStatus", {"customers:update"}))

CurrenciesController == "GET /currencies" :> Open("currencies.list")

ScheduledTransfersController ==
     ("POST /accounts/:id/scheduled-transfers" :> Permitted("schedules.create", {"transactions:create"}))
  @@ ("GET /scheduled-transfers" :> Permitted("schedules.list", {"transactions:read"}))
  @@ ("DELETE /scheduled-transfers/:id" :> Permitted("schedules.cancel", {"transactions:create"}))

StaffController ==
     ("GET /staff/customers" :> Permitted("staff.listCustomers", {"customers:list"}))
  @@ ("GET /staff/customers/:id" :> Permitted("staff.getCustomer", {"customers:list"}))
  @@ ("GET /staff/accounts" :> Permitted("staff.listAccounts", {"accounts:list"}))
  @@ ("GET /staff/accounts/:id" :> Permitted("staff.getAccount", {"accounts:list"}))
  @@ ("POST /staff/accounts/:id/credit" :> ForStaff("sandbox.adminCredit", {"accounts:credit"}))

TransactionsController ==
     ("GET /accounts/:id/transactions" :> Permitted("transactions.list", {"transactions:read"}))
  @@ ("POST /accounts/:id/transactions/deposit" :> Permitted("sandbox.deposit", {"transactions:create"}))
  @@ ("POST /accounts/:id/transactions/withdraw" :> Permitted("sandbox.withdraw", {"transactions:create"}))

TransferLimitsAdminController ==
     ("GET /transfer-limits" :> Permitted("limits.list", {"transfer_limits:read"}))
  @@ ("POST /transfer-limits" :> Permitted("limits.create", {"transfer_limits:create"}))
  @@ ("DELETE /transfer-limits/:id" :> Permitted("limits.retire", {"transfer_limits:delete"}))

TransferReviewController ==
     ("GET /transfer-reviews" :> Permitted("reviews.list", {"transactions:approve"}))
  @@ ("GET /transfer-reviews/:id" :> Permitted("reviews.get", {"transactions:approve"}))
  @@ ("POST /transfer-reviews/:id/approve" :> Permitted("reviews.approve", {"transactions:approve"}))
  @@ ("POST /transfer-reviews/:id/reject" :> Permitted("reviews.reject", {"transactions:reject"}))

TransfersController ==
     ("POST /accounts/:id/transfers/internal" :> Permitted("transfers.internal", {"transactions:create"}))
  @@ ("POST /accounts/:id/transfers/external" :> Permitted("transfers.external", {"transactions:create"}))

\* Every open is a new account of its own; a transition out of a state the
\* account is no longer in is refused.
AccountService ==
     ("accounts.list" :> Reads({"accounts", "balances"}))
  @@ ("accounts.get" :> Reads({"accounts", "balances"}))
  @@ ("accounts.open" :> Changes({"accounts", "balances", "openings"}, "again"))

AccountStatusService == "accounts.transition" :> Changes({"accounts"}, "refused")

BeneficiariesService ==
     ("beneficiaries.list" :> Reads({"beneficiaries"}))
  @@ ("beneficiaries.create" :> Changes({"beneficiaries"}, "again"))
  @@ ("beneficiaries.update" :> Changes({"beneficiaries"}, "same"))
  @@ ("beneficiaries.verify" :> Changes({"beneficiaries"}, "same"))
  @@ ("beneficiaries.delete" :> Changes({"beneficiaries"}, "refused"))

\* A consent row is appended each time; the current status reads the newest.
ConsentService ==
     ("consents.current" :> Reads({"consents"}))
  @@ ("consents.record" :> Changes({"consents"}, "same"))

CustomerProfileService ==
     ("profile.get" :> Reads({"profiles"}))
  @@ ("profile.update" :> Changes({"profiles"}, "same"))

CustomerStatus == "profile.setStatus" :> Changes({"profiles"}, "same")

Currencies == "currencies.list" :> Reads({"currencies"})

ScheduledTransfersService ==
     ("schedules.list" :> Reads({"schedules"}))
  @@ ("schedules.create" :> Changes({"schedules"}, "again"))
  @@ ("schedules.cancel" :> Changes({"schedules"}, "refused"))

\* The list counts a customer's accounts, whatever their status.
StaffCustomerService ==
     ("staff.listCustomers" :> Reads({"profiles", "openings"}))
  @@ ("staff.getCustomer" :> Reads({"profiles"}))

StaffAccountService ==
     ("staff.listAccounts" :> Reads({"accounts", "balances"}))
  @@ ("staff.getAccount" :> Reads({"accounts", "balances"}))

SandboxTransactionService ==
     ("sandbox.deposit" :> Changes({"balances", "transactions"}, "again"))
  @@ ("sandbox.withdraw" :> Changes({"balances", "transactions"}, "again"))
  @@ ("sandbox.adminCredit" :> Changes({"balances", "transactions"}, "again"))

TransactionQueryService == "transactions.list" :> Reads({"transactions"})

InternalTransferService ==
  "transfers.internal" :> Changes({"balances", "transactions", "reviews"}, "again")

ExternalTransferService ==
  "transfers.external" :> Changes({"balances", "transactions", "beneficiaries"}, "again")

TransferReviewService ==
     ("reviews.list" :> Reads({"reviews"}))
  @@ ("reviews.get" :> Reads({"reviews"}))
  @@ ("reviews.approve" :> Changes({"reviews", "transactions", "balances"}, "refused"))
  @@ ("reviews.reject" :> Changes({"reviews", "transactions"}, "refused"))

\* A new limit of a scope retires the old one.
TransferLimitsAdminService ==
     ("limits.list" :> Reads({"limits"}))
  @@ ("limits.create" :> Changes({"limits"}, "again"))
  @@ ("limits.retire" :> Changes({"limits"}, "refused"))

(***************************************************************************)
(* auth-service.                                                           *)
(***************************************************************************)

\* The routes of the front ends; phone verification, deactivation and the
\* second factors have none of their pages.
AuthController ==
     ("POST /auth/register" :> Open("auth.register"))
  @@ ("POST /auth/verify-email" :> Open("auth.verifyEmail"))
  @@ ("POST /auth/resend-email-verification" :> Open("auth.resendEmailVerification"))
  @@ ("POST /auth/login" :> Open("auth.login"))
  @@ ("POST /auth/logout" :> SignedIn("auth.logout"))
  @@ ("POST /auth/refresh" :> Open("auth.refresh"))
  @@ ("POST /auth/forgot-password" :> Open("auth.forgotPassword"))
  @@ ("POST /auth/reset-password" :> Open("auth.resetPassword"))
  @@ ("POST /auth/change-password" :> SignedIn("auth.changePassword"))
  @@ ("GET /auth/me" :> SignedIn("auth.me"))

MfaLoginController == "POST /auth/mfa/verify" :> Open("auth.login")

SessionsController ==
     ("GET /sessions" :> SignedIn("sessions.list"))
  @@ ("GET /sessions/user/:id" :> Permitted("sessions.listForUser", {"users:read"}))
  @@ ("DELETE /sessions/:id" :> SignedIn("sessions.revoke"))
  @@ ("DELETE /sessions" :> SignedIn("sessions.revokeAllOthers"))

DevicesController ==
     ("GET /devices" :> SignedIn("devices.list"))
  @@ ("POST /devices/:id/trust" :> SignedIn("devices.trust"))
  @@ ("DELETE /devices/:id" :> SignedIn("devices.remove"))
  @@ ("POST /devices/:id/revoke" :> SignedIn("devices.revoke"))

ApiKeysController ==
     ("GET /api-keys" :> Permitted("apiKeys.list", {"api_keys:read"}))
  @@ ("POST /api-keys" :> Permitted("apiKeys.create", {"api_keys:create"}))
  @@ ("DELETE /api-keys/:id" :> Permitted("apiKeys.revoke", {"api_keys:revoke"}))

AuthorizationController == "GET /authorization/me/permissions" :> SignedIn("authorization.mine")

FeatureFlagsController ==
     ("GET /feature-flags" :> Permitted("flags.list", {"feature_flags:read"}))
  @@ ("POST /feature-flags" :> Permitted("flags.create", {"feature_flags:create"}))
  @@ ("PATCH /feature-flags/:id" :> Permitted("flags.update", {"feature_flags:update"}))
  @@ ("POST /feature-flags/:id/toggle" :> Permitted("flags.toggle", {"feature_flags:toggle"}))

PermissionsController ==
     ("GET /permissions" :> Permitted("permissions.list", {"roles:read"}))
  @@ ("GET /permissions/groups" :> Permitted("permissions.groups", {"roles:read"}))

RoleAssignmentApprovalsController ==
     ("GET /role-assignment-approvals" :> Permitted("approvals.listPending", {"roles:assign"}))
  @@ ("POST /role-assignment-approvals/:id/approve" :> Permitted("approvals.approve", {"roles:assign"}))
  @@ ("POST /role-assignment-approvals/:id/reject" :> Permitted("approvals.reject", {"roles:assign"}))

RolesController ==
     ("GET /roles" :> Permitted("roles.list", {"roles:read"}))
  @@ ("GET /roles/:id" :> Permitted("roles.get", {"roles:read"}))
  @@ ("GET /roles/:id/audit-history" :> Permitted("roles.auditHistory", {"roles:read", "audit_logs:read"}))
  @@ ("POST /roles" :> Permitted("roles.create", {"roles:create"}))
  @@ ("PATCH /roles/:id" :> Permitted("roles.update", {"roles:update"}))
  @@ ("DELETE /roles/:id" :> Permitted("roles.delete", {"roles:delete"}))
  @@ ("POST /roles/:id/permissions" :> Permitted("roles.grantPermission", {"roles:update"}))
  @@ ("DELETE /roles/:id/permissions/:code" :> Permitted("roles.revokePermission", {"roles:update"}))

UserRolesController ==
     ("GET /user-roles/:id" :> Permitted("userRoles.list", {"roles:read"}))
  @@ ("POST /user-roles" :> Permitted("userRoles.assign", {"roles:assign"}))
  @@ ("DELETE /user-roles/:id/:roleId" :> Permitted("userRoles.revoke", {"roles:revoke"}))

CountriesController == "GET /countries" :> Open("countries.list")

SecurityEventsController ==
  "GET /security-events" :> Permitted("securityEvents.list", {"audit_logs:read"})

\* Registering an address that is taken is refused, and a link works once.
\* Sending a link again only replaces a challenge, and no page shows one.
AuthService ==
     ("auth.register" :> Changes({"users", "profiles"}, "refused"))
  @@ ("auth.verifyEmail" :> Changes({"users"}, "refused"))
  @@ ("auth.resendEmailVerification" :> Changes({}, "same"))
  @@ ("auth.forgotPassword" :> Changes({}, "same"))
  @@ ("auth.resetPassword" :> Changes({"users", "sessions"}, "refused"))
  @@ ("auth.changePassword" :> Changes({"users", "sessions"}, "refused"))
  @@ ("auth.login" :> Changes({"sessions", "devices"}, "again"))
  @@ ("auth.refresh" :> Changes({"sessions"}, "refused"))
  @@ ("auth.logout" :> Changes({"sessions"}, "same"))
  @@ ("auth.me" :> Reads({"users", "profiles"}))

SessionService ==
     ("sessions.list" :> Reads({"sessions"}))
  @@ ("sessions.listForUser" :> Reads({"sessions"}))
  @@ ("sessions.revoke" :> Changes({"sessions"}, "same"))
  @@ ("sessions.revokeAllOthers" :> Changes({"sessions"}, "same"))

\* Revoking a device ends the sessions opened from it.
DeviceService ==
     ("devices.list" :> Reads({"devices"}))
  @@ ("devices.trust" :> Changes({"devices"}, "same"))
  @@ ("devices.remove" :> Changes({"devices"}, "same"))
  @@ ("devices.revoke" :> Changes({"devices", "sessions"}, "same"))

ApiKeyService ==
     ("apiKeys.list" :> Reads({"apiKeys"}))
  @@ ("apiKeys.create" :> Changes({"apiKeys"}, "again"))
  @@ ("apiKeys.revoke" :> Changes({"apiKeys"}, "same"))

FeatureFlagAdminService ==
     ("flags.list" :> Reads({"flags"}))
  @@ ("flags.create" :> Changes({"flags"}, "refused"))
  @@ ("flags.update" :> Changes({"flags"}, "same"))
  @@ ("flags.toggle" :> Changes({"flags"}, "same"))

PermissionService ==
  ("permissions.list" :> Reads({"permissions"})) @@ ("permissions.groups" :> Reads({"permissions"}))

PermissionResolver == "authorization.mine" :> Reads({"roles", "userRoles"})

RoleAssignmentApprovalService ==
     ("approvals.listPending" :> Reads({"roleRequests"}))
  @@ ("approvals.approve" :> Changes({"roleRequests", "userRoles"}, "refused"))
  @@ ("approvals.reject" :> Changes({"roleRequests"}, "refused"))

\* Role names are unique, a grant is an upsert, the history is the audit rows.
RoleService ==
     ("roles.list" :> Reads({"roles"}))
  @@ ("roles.get" :> Reads({"roles"}))
  @@ ("roles.auditHistory" :> Reads({"auditLogs"}))
  @@ ("roles.create" :> Changes({"roles"}, "refused"))
  @@ ("roles.update" :> Changes({"roles"}, "same"))
  @@ ("roles.delete" :> Changes({"roles"}, "refused"))
  @@ ("roles.grantPermission" :> Changes({"roles"}, "same"))
  @@ ("roles.revokePermission" :> Changes({"roles"}, "same"))

UserRoleService ==
     ("userRoles.list" :> Reads({"userRoles"}))
  @@ ("userRoles.assign" :> Changes({"userRoles", "roleRequests"}, "again"))
  @@ ("userRoles.revoke" :> Changes({"userRoles"}, "same"))

Countries == "countries.list" :> Reads({"countries"})

SecurityEventQueryService == "securityEvents.list" :> Reads({"securityEvents"})

(***************************************************************************)
(* audit-service, notification-service, receipt-service.                   *)
(***************************************************************************)

AuditController ==
     ("GET /audit-logs" :> Permitted("auditLogs.list", {"audit_logs:read"}))
  @@ ("GET /audit-logs/verify-chain" :> Permitted("auditLogs.verifyChain", {"audit_logs:read"}))

NotificationsController ==
     ("GET /notifications" :> Permitted("notifications.list", {"notifications:read"}))
  @@ ("GET /notifications/unread-count" :> Permitted("notifications.unreadCount", {"notifications:read"}))
  @@ ("PATCH /notifications/:id/read" :> Permitted("notifications.markRead", {"notifications:read"}))
  @@ ("PATCH /notifications/read-all" :> Permitted("notifications.markAllRead", {"notifications:read"}))

NotificationTemplatesController ==
  "GET /notification-templates" :> Permitted("templates.list", {"notifications:send"})

ReceiptsController ==
     ("GET /receipts" :> Permitted("receipts.listMine", {"transactions:read"}))
  @@ ("GET /receipts/transaction/:id" :> Permitted("receipts.get", {"transactions:read"}))

StatementsController ==
     ("POST /accounts/:id/statements" :> Permitted("statements.request", {"statements:generate"}))
  @@ ("GET /statements" :> Permitted("statements.list", {"statements:read"}))

AuditQueryService ==
  ("auditLogs.list" :> Reads({"auditLogs"})) @@ ("auditLogs.verifyChain" :> Reads({"auditLogs"}))

NotificationCenterService ==
     ("notifications.list" :> Reads({"notifications"}))
  @@ ("notifications.unreadCount" :> Reads({"notifications"}))
  @@ ("notifications.markRead" :> Changes({"notifications"}, "same"))
  @@ ("notifications.markAllRead" :> Changes({"notifications"}, "same"))

NotificationTemplateService == "templates.list" :> Reads({"templates"})

ReceiptQueryService ==
  ("receipts.listMine" :> Reads({"receipts"})) @@ ("receipts.get" :> Reads({"receipts"}))

\* Every request is a row and a job of its own.
StatementsService ==
     ("statements.request" :> Changes({"statements"}, "again"))
  @@ ("statements.list" :> Reads({"statements"}))

Routes ==
  AccountsController @@ BeneficiariesController @@ ConsentController
  @@ CustomerProfileController @@ CurrenciesController @@ ScheduledTransfersController
  @@ StaffController @@ TransactionsController @@ TransferLimitsAdminController
  @@ TransferReviewController @@ TransfersController @@ AuthController
  @@ MfaLoginController @@ SessionsController @@ DevicesController @@ ApiKeysController
  @@ AuthorizationController @@ FeatureFlagsController @@ PermissionsController
  @@ RoleAssignmentApprovalsController @@ RolesController @@ UserRolesController
  @@ CountriesController @@ SecurityEventsController @@ AuditController
  @@ NotificationsController @@ NotificationTemplatesController @@ ReceiptsController
  @@ StatementsController

Methods ==
  AccountService @@ AccountStatusService @@ BeneficiariesService @@ ConsentService
  @@ CustomerProfileService @@ CustomerStatus @@ Currencies @@ ScheduledTransfersService
  @@ StaffCustomerService @@ StaffAccountService @@ SandboxTransactionService
  @@ TransactionQueryService @@ InternalTransferService @@ ExternalTransferService
  @@ TransferReviewService @@ TransferLimitsAdminService @@ AuthService @@ SessionService
  @@ DeviceService @@ ApiKeyService @@ FeatureFlagAdminService @@ PermissionService
  @@ PermissionResolver @@ RoleAssignmentApprovalService @@ RoleService @@ UserRoleService
  @@ Countries @@ SecurityEventQueryService @@ AuditQueryService
  @@ NotificationCenterService @@ NotificationTemplateService @@ ReceiptQueryService
  @@ StatementsService
=============================================================================
