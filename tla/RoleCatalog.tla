----------------------------- MODULE RoleCatalog -----------------------------
(***************************************************************************)
(* packages/authz, permission-catalog.ts: the permissions there are and    *)
(* the roles that are seeded with them.  prisma/seed.ts writes both, and   *)
(* an administrator may add roles and change grants afterwards             *)
(* (AccessControl); this is what a fresh bank starts with.                 *)
(***************************************************************************)
EXTENDS Sequences, TLC

\* Every resource with the actions that mean something on it.
PermissionCatalog ==
     ("accounts" :> {"read", "list", "create", "update", "freeze", "unfreeze", "close",
       "credit"})
  @@ ("customers" :> {"read", "list", "create", "update", "delete"})
  @@ ("transactions" :> {"read", "create", "approve", "reject", "reverse"})
  @@ ("transfer_limits" :> {"read", "create", "delete"})
  @@ ("beneficiaries" :> {"read", "create", "update", "delete"})
  @@ ("loans" :> {"read", "create", "update", "approve", "reject", "disburse"})
  @@ ("savings" :> {"read", "create", "update", "close"})
  @@ ("statements" :> {"read", "generate"})
  @@ ("notifications" :> {"read", "send"})
  @@ ("support_tickets" :> {"read", "create", "update", "assign", "resolve", "escalate"})
  @@ ("audit_logs" :> {"read", "export"})
  @@ ("kyc" :> {"read", "submit", "approve", "reject"})
  @@ ("reports" :> {"read", "generate", "export"})
  @@ ("users" :> {"read", "create", "update", "delete", "suspend"})
  @@ ("roles" :> {"read", "create", "update", "delete", "assign", "revoke"})
  @@ ("system_config" :> {"read", "update"})
  @@ ("api_keys" :> {"read", "create", "revoke"})
  @@ ("feature_flags" :> {"read", "create", "update", "toggle"})
  @@ ("webhooks" :> {"read", "create", "update", "delete"})

Codes(resource) == {resource \o ":" \o action : action \in PermissionCatalog[resource]}
AllCodes == UNION {Codes(resource) : resource \in DOMAIN PermissionCatalog}

Customer ==
  {"customers:read", "customers:update", "accounts:read", "accounts:create",
   "accounts:update", "accounts:freeze", "transactions:read",
   "transactions:create", "beneficiaries:read", "beneficiaries:create",
   "beneficiaries:update", "beneficiaries:delete", "loans:read",
   "loans:create", "savings:read", "savings:create", "statements:read",
   "statements:generate", "notifications:read", "support_tickets:read",
   "support_tickets:create", "kyc:read", "kyc:submit"}

CustomerSupport ==
  {"customers:read", "customers:list", "customers:update", "accounts:read",
   "accounts:list", "accounts:freeze", "support_tickets:read",
   "support_tickets:create", "support_tickets:update",
   "support_tickets:assign", "support_tickets:escalate", "notifications:read",
   "notifications:send"}

OperationsOfficer ==
  {"customers:read", "customers:list", "customers:update", "accounts:read",
   "accounts:list", "accounts:create", "accounts:update", "accounts:freeze",
   "accounts:unfreeze", "accounts:close", "accounts:credit",
   "transactions:read", "transactions:create", "savings:read",
   "savings:create", "savings:update", "statements:read", "statements:generate"}

ComplianceOfficer ==
  {"customers:read", "customers:list", "kyc:read", "kyc:approve", "kyc:reject",
   "accounts:read", "accounts:list", "accounts:freeze", "accounts:unfreeze",
   "audit_logs:read", "reports:read", "reports:export"}

RiskOfficer ==
  {"customers:read", "customers:list", "accounts:read", "accounts:list",
   "accounts:freeze", "accounts:unfreeze", "transactions:read",
   "transactions:approve", "transactions:reject", "transactions:reverse",
   "transfer_limits:read", "transfer_limits:create", "transfer_limits:delete",
   "loans:read", "reports:read", "audit_logs:read"}

LoanOfficer ==
  {"customers:read", "customers:list", "accounts:read", "loans:read",
   "loans:create", "loans:update", "loans:approve", "loans:reject",
   "loans:disburse", "reports:read"}

FinanceOfficer ==
  {"accounts:read", "accounts:list", "transactions:read",
   "transactions:approve", "transactions:reject", "transfer_limits:read",
   "transfer_limits:create", "transfer_limits:delete", "statements:read",
   "statements:generate", "reports:read", "reports:generate", "reports:export",
   "audit_logs:read"}

Auditor ==
  {"customers:read", "customers:list", "accounts:read", "accounts:list",
   "transactions:read", "transfer_limits:read", "loans:read", "savings:read",
   "statements:read", "kyc:read", "audit_logs:read", "audit_logs:export",
   "reports:read", "reports:export", "users:read", "roles:read"}

SystemAdministrator ==
  {"users:read", "users:create", "users:update", "users:delete",
   "users:suspend", "roles:read", "roles:create", "roles:update",
   "roles:delete", "roles:assign", "roles:revoke", "system_config:read",
   "system_config:update", "api_keys:read", "api_keys:create",
   "api_keys:revoke", "feature_flags:read", "feature_flags:create",
   "feature_flags:update", "feature_flags:toggle", "webhooks:read",
   "webhooks:create", "webhooks:update", "webhooks:delete", "audit_logs:read"}

\* Inherits from the system administrator, and is granted everything anyway.
SuperAdministrator == AllCodes \cup SystemAdministrator

RoleGrants ==
     ("CUSTOMER" :> Customer)
  @@ ("CUSTOMER_SUPPORT" :> CustomerSupport)
  @@ ("OPERATIONS_OFFICER" :> OperationsOfficer)
  @@ ("COMPLIANCE_OFFICER" :> ComplianceOfficer)
  @@ ("RISK_OFFICER" :> RiskOfficer)
  @@ ("LOAN_OFFICER" :> LoanOfficer)
  @@ ("FINANCE_OFFICER" :> FinanceOfficer)
  @@ ("AUDITOR" :> Auditor)
  @@ ("SYSTEM_ADMINISTRATOR" :> SystemAdministrator)
  @@ ("SUPER_ADMINISTRATOR" :> SuperAdministrator)

\* The roles whose grant needs a second member of staff.
SensitiveRoles == {"SYSTEM_ADMINISTRATOR", "SUPER_ADMINISTRATOR"}
StaffRoles == DOMAIN RoleGrants \ {"CUSTOMER"}
=============================================================================
