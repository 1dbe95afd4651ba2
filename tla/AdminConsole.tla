---------------------------- MODULE AdminConsole ----------------------------
(***************************************************************************)
(* apps/admin as tables: the calls of lib/api, the hooks of lib/hooks, the *)
(* menu, and the components of app/ with the queries they watch and the    *)
(* controls they offer.  Layout, wording, filters and paging are left out. *)
(***************************************************************************)
EXTENDS PortalTables

(***************************************************************************)
(* lib/api: the route each function calls.                                 *)
(***************************************************************************)

\* statusAction names the route after the action.
AccountCalls ==
     ("activateAccount" :> "POST /accounts/:id/activate")
  @@ ("freezeAccount" :> "POST /accounts/:id/freeze")
  @@ ("unfreezeAccount" :> "POST /accounts/:id/unfreeze")
  @@ ("closeAccount" :> "POST /accounts/:id/close")
  @@ ("restrictAccount" :> "POST /accounts/:id/restrict")
  @@ ("unrestrictAccount" :> "POST /accounts/:id/unrestrict")
  @@ ("markAccountDormant" :> "POST /accounts/:id/mark-dormant")

ApiKeyCalls ==
     ("listApiKeys" :> "GET /api-keys")
  @@ ("createApiKey" :> "POST /api-keys")
  @@ ("revokeApiKey" :> "DELETE /api-keys/:id")

AuditCalls ==
     ("listAuditLogs" :> "GET /audit-logs")
  @@ ("verifyAuditChain" :> "GET /audit-logs/verify-chain")

AuthCalls ==
     ("login" :> "POST /auth/login")
  @@ ("verifyMfa" :> "POST /auth/mfa/verify")
  @@ ("refreshSession" :> "POST /auth/refresh")
  @@ ("logout" :> "POST /auth/logout")
  @@ ("getMe" :> "GET /auth/me")
  @@ ("getMyPermissions" :> "GET /authorization/me/permissions")

FeatureFlagCalls ==
     ("listFeatureFlags" :> "GET /feature-flags")
  @@ ("createFeatureFlag" :> "POST /feature-flags")
  @@ ("updateFeatureFlag" :> "PATCH /feature-flags/:id")
  @@ ("toggleFeatureFlag" :> "POST /feature-flags/:id/toggle")

NotificationCalls == "listNotificationTemplates" :> "GET /notification-templates"

PermissionCalls ==
  ("listPermissions" :> "GET /permissions") @@ ("listPermissionGroups" :> "GET /permissions/groups")

RoleCalls ==
     ("listRoles" :> "GET /roles")
  @@ ("getRole" :> "GET /roles/:id")
  @@ ("getRoleAuditHistory" :> "GET /roles/:id/audit-history")
  @@ ("createRole" :> "POST /roles")
  @@ ("updateRole" :> "PATCH /roles/:id")
  @@ ("deleteRole" :> "DELETE /roles/:id")
  @@ ("grantRolePermission" :> "POST /roles/:id/permissions")
  @@ ("revokeRolePermission" :> "DELETE /roles/:id/permissions/:code")

SecurityEventCalls == "listSecurityEvents" :> "GET /security-events"

SessionCalls == "listSessionsForUser" :> "GET /sessions/user/:id"

StaffCalls ==
     ("listCustomers" :> "GET /staff/customers")
  @@ ("getCustomer" :> "GET /staff/customers/:id")
  @@ ("listStaffAccounts" :> "GET /staff/accounts")
  @@ ("getStaffAccount" :> "GET /staff/accounts/:id")
  @@ ("creditAccount" :> "POST /staff/accounts/:id/credit")

TransferLimitCalls ==
     ("listTransferLimits" :> "GET /transfer-limits")
  @@ ("createTransferLimit" :> "POST /transfer-limits")
  @@ ("retireTransferLimit" :> "DELETE /transfer-limits/:id")

TransferReviewCalls ==
     ("listTransferReviews" :> "GET /transfer-reviews")
  @@ ("getTransferReview" :> "GET /transfer-reviews/:id")
  @@ ("approveTransferReview" :> "POST /transfer-reviews/:id/approve")
  @@ ("rejectTransferReview" :> "POST /transfer-reviews/:id/reject")

\* No page calls these: role assignments are reviewed without the console.
UserRoleCalls ==
     ("listUserRoles" :> "GET /user-roles/:id")
  @@ ("assignUserRole" :> "POST /user-roles")
  @@ ("revokeUserRole" :> "DELETE /user-roles/:id/:roleId")
  @@ ("listPendingRoleApprovals" :> "GET /role-assignment-approvals")
  @@ ("approveRoleAssignment" :> "POST /role-assignment-approvals/:id/approve")
  @@ ("rejectRoleAssignment" :> "POST /role-assignment-approvals/:id/reject")

Calls ==
  AccountCalls @@ ApiKeyCalls @@ AuditCalls @@ AuthCalls @@ FeatureFlagCalls @@ NotificationCalls
  @@ PermissionCalls @@ RoleCalls @@ SecurityEventCalls @@ SessionCalls @@ StaffCalls
  @@ TransferLimitCalls @@ TransferReviewCalls @@ UserRoleCalls

(***************************************************************************)
(* lib/hooks: the queries.                                                 *)
(***************************************************************************)

AccountQueries ==
     ("useStaffAccounts" :> Query(<<"staff-accounts", "params">>, "listStaffAccounts"))
  @@ ("useStaffAccount" :> Query(<<"staff-accounts", "id">>, "getStaffAccount"))

ApiKeyQueries == "useApiKeys" :> Query(<<"api-keys">>, "listApiKeys")

AuditQueries == "useAuditLogs" :> Query(<<"audit-logs", "params">>, "listAuditLogs")

CustomerQueries ==
     ("useCustomers" :> Query(<<"customers", "params">>, "listCustomers"))
  @@ ("useCustomer" :> Query(<<"customers", "id">>, "getCustomer"))

FeatureFlagQueries == "useFeatureFlags" :> Query(<<"feature-flags">>, "listFeatureFlags")

TemplateQueries ==
  "useNotificationTemplates" :> Query(<<"notification-templates">>, "listNotificationTemplates")

RoleQueries ==
     ("useRoles" :> Query(<<"roles">>, "listRoles"))
  @@ ("useRole" :> Query(<<"roles", "id">>, "getRole"))
  @@ ("useRoleAuditHistory" :> Query(<<"roles", "id", "audit-history">>, "getRoleAuditHistory"))
  @@ ("usePermissionsCatalog" :> Query(<<"permissions">>, "listPermissions"))
  @@ ("usePermissionGroups" :> Query(<<"permissions", "groups">>, "listPermissionGroups"))

SecurityEventQueries ==
  "useSecurityEvents" :> Query(<<"security-events", "params">>, "listSecurityEvents")

SessionQueries == "useUserSessions" :> Query(<<"sessions", "user">>, "listSessionsForUser")

TransferLimitQueries == "useTransferLimits" :> Query(<<"transfer-limits">>, "listTransferLimits")

TransferReviewQueries ==
     ("useTransferReviews" :> Query(<<"transfer-reviews", "status">>, "listTransferReviews"))
  @@ ("useTransferReview" :> Query(<<"transfer-reviews", "detail", "id">>, "getTransferReview"))

Queries ==
  AccountQueries @@ ApiKeyQueries @@ AuditQueries @@ CustomerQueries @@ FeatureFlagQueries
  @@ TemplateQueries @@ RoleQueries @@ SecurityEventQueries @@ SessionQueries
  @@ TransferLimitQueries @@ TransferReviewQueries

(***************************************************************************)
(* lib/hooks: the mutations.                                               *)
(***************************************************************************)

\* useAccountStatusMutation: nothing waits for the invalidation.
StatusMutation(call) == Mutation(call, {<<"staff-accounts">>, <<"staff-accounts", "id">>})

AccountMutations ==
     ("useActivateAccount" :> StatusMutation("activateAccount"))
  @@ ("useFreezeAccount" :> StatusMutation("freezeAccount"))
  @@ ("useUnfreezeAccount" :> StatusMutation("unfreezeAccount"))
  @@ ("useCloseAccount" :> StatusMutation("closeAccount"))
  @@ ("useRestrictAccount" :> StatusMutation("restrictAccount"))
  @@ ("useUnrestrictAccount" :> StatusMutation("unrestrictAccount"))
  @@ ("useMarkAccountDormant" :> StatusMutation("markAccountDormant"))

CreditMutation ==
  "useCreditAccount" :> Mutation("creditAccount", {<<"staff-accounts">>, <<"staff-accounts", "id">>})

ApiKeyMutations ==
     ("useCreateApiKey" :> Awaited("createApiKey", {<<"api-keys">>}))
  @@ ("useRevokeApiKey" :> Awaited("revokeApiKey", {<<"api-keys">>}))

AuditMutations == "useVerifyAuditChain" :> Mutation("verifyAuditChain", {})

FeatureFlagMutations ==
     ("useCreateFeatureFlag" :> Awaited("createFeatureFlag", {<<"feature-flags">>}))
  @@ ("useUpdateFeatureFlag" :> Awaited("updateFeatureFlag", {<<"feature-flags">>}))
  @@ ("useToggleFeatureFlag" :> Awaited("toggleFeatureFlag", {<<"feature-flags">>}))

\* Only useCreateRole has a page; the dialog grants with the bare call.
RoleMutations ==
     ("useCreateRole" :> Awaited("createRole", {<<"roles">>}))
  @@ ("useUpdateRole" :> Mutation("updateRole", {<<"roles">>, <<"roles", "id">>}))
  @@ ("useDeleteRole" :> Awaited("deleteRole", {<<"roles">>}))
  @@ ("useGrantRolePermission" :> Awaited("grantRolePermission", {<<"roles", "id">>}))
  @@ ("useRevokeRolePermission" :> Awaited("revokeRolePermission", {<<"roles", "id">>}))
  @@ ("grantRolePermission" :> Mutation("grantRolePermission", {}))

TransferLimitMutations ==
     ("useCreateTransferLimit" :> Awaited("createTransferLimit", {<<"transfer-limits">>}))
  @@ ("useRetireTransferLimit" :> Awaited("retireTransferLimit", {<<"transfer-limits">>}))

TransferReviewMutations ==
     ("useApproveTransferReview" :> Mutation("approveTransferReview", {<<"transfer-reviews">>}))
  @@ ("useRejectTransferReview" :> Mutation("rejectTransferReview", {<<"transfer-reviews">>}))

Mutations ==
  AccountMutations @@ CreditMutation @@ ApiKeyMutations @@ AuditMutations @@ FeatureFlagMutations
  @@ RoleMutations @@ TransferLimitMutations @@ TransferReviewMutations

(***************************************************************************)
(* The components.                                                         *)
(***************************************************************************)

\* A button of the page that runs one mutation, is disabled meanwhile, and
\* says how it ended.
OnePress(mutation) == Control(<<mutation>>, "pending", "toast")

ActionDialog(mutation) == ThenRefetch(OnePress(mutation), {"useStaffAccount"})

CreditAccountDialog == ThenRefetch(OnePress("useCreditAccount"), {"useStaffAccount"})

AccountDetailPage ==
  Component({"useStaffAccount"},
            ("activate" :> ActionDialog("useActivateAccount"))
         @@ ("credit" :> CreditAccountDialog)
         @@ ("freeze" :> ActionDialog("useFreezeAccount"))
         @@ ("unfreeze" :> ActionDialog("useUnfreezeAccount"))
         @@ ("suspend" :> ActionDialog("useRestrictAccount"))
         @@ ("unsuspend" :> ActionDialog("useUnrestrictAccount"))
         @@ ("mark dormant" :> ActionDialog("useMarkAccountDormant"))
         @@ ("close" :> ActionDialog("useCloseAccount")))

AccountsPage == Component({"useStaffAccounts"}, NoControls)

AuditLogsPage ==
  Component({"useAuditLogs"},
            "verify chain" :> Control(<<"useVerifyAuditChain">>, "pending", "card"))

CustomersPage == Component({"useCustomers"}, NoControls)
CustomerDetailPage == Component({"useCustomer"}, NoControls)

PendingActivationRow ==
  Component({}, "activate" :> ThenRefetch(OnePress("useActivateAccount"), {"useStaffAccounts"}))

\* Each card is shown, and its query enabled, with the permission it needs.
DashboardPage ==
  WithGates(Component({"useCustomers", "useStaffAccounts", "useAuditLogs", "useSecurityEvents"},
                      NoControls),
            ("useCustomers" :> "customers:list")
         @@ ("useStaffAccounts" :> "accounts:list")
         @@ ("useAuditLogs" :> "audit_logs:read")
         @@ ("useSecurityEvents" :> "audit_logs:read"))

NotificationsPage == Component({"useNotificationTemplates"}, NoControls)

\* The button waits for the role only: it is enabled again while the
\* permissions are granted, one by one and without a hook.
CreateRoleDialog ==
  Component({"usePermissionGroups"},
            "create role" :> Control(<<"useCreateRole", "grantRolePermission">>, "first", "toast"))

RolesPage == Component({"useRoles"}, NoControls)
RoleDetailPage == Component({"useRole", "useRoleAuditHistory"}, NoControls)

SecurityEventsPage == Component({"useSecurityEvents"}, NoControls)
SessionsPage == Component({"useUserSessions"}, NoControls)

CreateFlagDialog == Component({}, "create flag" :> OnePress("useCreateFeatureFlag"))
EditFlagDialog == Component({}, "edit flag" :> OnePress("useUpdateFeatureFlag"))

FeatureFlagsTab ==
  Component({"useFeatureFlags"},
            "toggle" :> Control(<<"useToggleFeatureFlag">>, "pending", "silent"))

CreateApiKeyDialog ==
  Component({"usePermissionsCatalog"},
            "create key" :> Control(<<"useCreateApiKey">>, "pending", "card"))

ApiKeysTab == Component({"useApiKeys"}, "revoke key" :> OnePress("useRevokeApiKey"))

CreateLimitDialog ==
  Component({}, "set limit" :> ShownWith(OnePress("useCreateTransferLimit"), {"transfer_limits:create"}))

TransferLimitsPage ==
  Component({"useTransferLimits"},
            "remove limit" :> ShownWith(OnePress("useRetireTransferLimit"), {"transfer_limits:delete"}))

TransferReviewPage == Component({"useTransferReviews"}, NoControls)

TransferReviewDetailPage ==
  LET Decide(mutation, code) ==
        ShownWith(ThenRefetch(OnePress(mutation), {"useTransferReview"}), {code})
  IN  Component({"useTransferReview"},
                ("approve" :> Decide("useApproveTransferReview", "transactions:approve"))
             @@ ("reject" :> Decide("useRejectTransferReview", "transactions:reject")))

\* SystemConfigPage mounts one of its two tabs.
Screens ==
     ("/dashboard" :> Screen(<<DashboardPage, PendingActivationRow>>))
  @@ ("/accounts" :> Screen(<<AccountsPage>>))
  @@ ("/accounts/:id" :> Screen(<<AccountDetailPage>>))
  @@ ("/audit-logs" :> Screen(<<AuditLogsPage>>))
  @@ ("/customers" :> Screen(<<CustomersPage>>))
  @@ ("/customers/:id" :> Screen(<<CustomerDetailPage>>))
  @@ ("/notifications" :> Screen(<<NotificationsPage>>))
  @@ ("/roles" :> Screen(<<CreateRoleDialog, RolesPage>>))
  @@ ("/roles/:id" :> Screen(<<RoleDetailPage>>))
  @@ ("/security-events" :> Screen(<<SecurityEventsPage>>))
  @@ ("/sessions" :> Screen(<<SessionsPage>>))
  @@ ("/system-config flags" :> Screen(<<CreateFlagDialog, EditFlagDialog, FeatureFlagsTab>>))
  @@ ("/system-config keys" :> Screen(<<CreateApiKeyDialog, ApiKeysTab>>))
  @@ ("/transfer-limits" :> Screen(<<CreateLimitDialog, TransferLimitsPage>>))
  @@ ("/transfer-review" :> Screen(<<TransferReviewPage>>))
  @@ ("/transfer-review/:id" :> Screen(<<TransferReviewDetailPage>>))

\* The menu: the permission without which a page has no entry in the sidebar.
\* Only the entry is withheld, and only for the lists: the page is served to
\* whoever types its address.
MenuPermission ==
     ("/customers" :> "customers:list")
  @@ ("/accounts" :> "accounts:list")
  @@ ("/transfer-review" :> "transactions:approve")
  @@ ("/transfer-limits" :> "transfer_limits:read")
  @@ ("/audit-logs" :> "audit_logs:read")
  @@ ("/sessions" :> "users:read")
  @@ ("/roles" :> "roles:read")
  @@ ("/system-config flags" :> "feature_flags:read")
  @@ ("/security-events" :> "audit_logs:read")
  @@ ("/notifications" :> "notifications:send")
=============================================================================
