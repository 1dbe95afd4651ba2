--------------------------- MODULE CustomerPortal ---------------------------
(***************************************************************************)
(* apps/customer-portal as tables: the calls of lib/api, the hooks of      *)
(* lib/hooks, and the components of app/ with the queries they watch and   *)
(* the controls they offer.  Layout, wording, validation of forms and      *)
(* downloads are left out.                                                 *)
(***************************************************************************)
EXTENDS PortalTables

(***************************************************************************)
(* lib/api: the route each function calls.                                 *)
(***************************************************************************)

AccountCalls ==
     ("listMyAccounts" :> "GET /accounts")
  @@ ("getAccount" :> "GET /accounts/:id")
  @@ ("openAccount" :> "POST /accounts")
  @@ ("activateAccount" :> "POST /accounts/:id/activate")
  @@ ("freezeAccount" :> "POST /accounts/:id/freeze")
  @@ ("listAccountTransactions" :> "GET /accounts/:id/transactions")
  @@ ("depositToAccount" :> "POST /accounts/:id/transactions/deposit")
  @@ ("withdrawFromAccount" :> "POST /accounts/:id/transactions/withdraw")
  @@ ("transferInternal" :> "POST /accounts/:id/transfers/internal")
  @@ ("transferExternal" :> "POST /accounts/:id/transfers/external")

AuthCalls ==
     ("register" :> "POST /auth/register")
  @@ ("verifyEmail" :> "POST /auth/verify-email")
  @@ ("resendVerification" :> "POST /auth/resend-email-verification")
  @@ ("login" :> "POST /auth/login")
  @@ ("verifyMfa" :> "POST /auth/mfa/verify")
  @@ ("refreshSession" :> "POST /auth/refresh")
  @@ ("logout" :> "POST /auth/logout")
  @@ ("forgotPassword" :> "POST /auth/forgot-password")
  @@ ("resetPassword" :> "POST /auth/reset-password")
  @@ ("changePassword" :> "POST /auth/change-password")
  @@ ("getMe" :> "GET /auth/me")
  @@ ("listSessions" :> "GET /sessions")
  @@ ("revokeSession" :> "DELETE /sessions/:id")
  @@ ("revokeAllOtherSessions" :> "DELETE /sessions")
  @@ ("listDevices" :> "GET /devices")
  @@ ("revokeDevice" :> "POST /devices/:id/revoke")
  @@ ("removeDevice" :> "DELETE /devices/:id")

BeneficiaryCalls ==
     ("listBeneficiaries" :> "GET /beneficiaries")
  @@ ("createBeneficiary" :> "POST /beneficiaries")
  @@ ("updateBeneficiary" :> "PATCH /beneficiaries/:id")
  @@ ("verifyBeneficiary" :> "POST /beneficiaries/:id/verify")
  @@ ("deleteBeneficiary" :> "DELETE /beneficiaries/:id")

CustomerCalls ==
     ("getMyProfile" :> "GET /customers/me")
  @@ ("updateMyProfile" :> "PATCH /customers/me")
  @@ ("getMyConsents" :> "GET /customers/me/consents")
  @@ ("recordConsent" :> "POST /customers/me/consents")

NotificationCalls ==
     ("listMyNotifications" :> "GET /notifications")
  @@ ("getUnreadCount" :> "GET /notifications/unread-count")
  @@ ("markNotificationRead" :> "PATCH /notifications/:id/read")
  @@ ("markAllNotificationsRead" :> "PATCH /notifications/read-all")

ReceiptCalls ==
     ("getReceiptForTransaction" :> "GET /receipts/transaction/:id")
  @@ ("listReceipts" :> "GET /receipts")

ReferenceCalls == ("listCountries" :> "GET /countries") @@ ("listCurrencies" :> "GET /currencies")

ScheduleCalls ==
     ("listScheduledTransfers" :> "GET /scheduled-transfers")
  @@ ("createScheduledTransfer" :> "POST /accounts/:id/scheduled-transfers")
  @@ ("cancelScheduledTransfer" :> "DELETE /scheduled-transfers/:id")

StatementCalls ==
     ("requestStatement" :> "POST /accounts/:id/statements")
  @@ ("listStatements" :> "GET /statements")

Calls ==
  AccountCalls @@ AuthCalls @@ BeneficiaryCalls @@ CustomerCalls @@ NotificationCalls
  @@ ReceiptCalls @@ ReferenceCalls @@ ScheduleCalls @@ StatementCalls

(***************************************************************************)
(* lib/hooks.  The queries, and the one read on the pages without a hook.  *)
(***************************************************************************)

AccountQueries ==
     ("useAccounts" :> Query(<<"accounts">>, "listMyAccounts"))
  @@ ("useAccount" :> Query(<<"accounts", "id">>, "getAccount"))
  @@ ("useAccountTransactions" :> Query(<<"accounts", "id", "transactions">>, "listAccountTransactions"))

BeneficiaryQueries == "useBeneficiaries" :> Query(<<"beneficiaries", "search">>, "listBeneficiaries")

NotificationQueries == "useNotifications" :> Query(<<"notifications", "page">>, "listMyNotifications")

\* Polls every 30 seconds.
UnreadQuery == "useUnreadCount" :> Polled(<<"notifications", "unread-count">>, "getUnreadCount")

ProfileQueries ==
     ("useProfile" :> Query(<<"profile">>, "getMyProfile"))
  @@ ("useConsents" :> Query(<<"consents">>, "getMyConsents"))

ReceiptQueries ==
     ("useReceipts" :> Query(<<"receipts">>, "listReceipts"))
  @@ ("useReceipt" :> Query(<<"receipt", "transaction">>, "getReceiptForTransaction"))

ScheduleQueries == "useScheduledTransfers" :> Query(<<"scheduled-transfers">>, "listScheduledTransfers")

SecurityQueries ==
     ("useSessions" :> Query(<<"sessions">>, "listSessions"))
  @@ ("useDevices" :> Query(<<"devices">>, "listDevices"))

\* Polls every two seconds while a statement is queued or running.
StatementQueries == "useStatements" :> Polled(<<"statements">>, "listStatements")

ReferenceQueries ==
     ("countries" :> Query(<<"countries">>, "listCountries"))
  @@ ("currencies" :> Query(<<"currencies">>, "listCurrencies"))

Queries ==
  AccountQueries @@ BeneficiaryQueries @@ NotificationQueries @@ UnreadQuery @@ ProfileQueries
  @@ ReceiptQueries @@ ScheduleQueries @@ SecurityQueries @@ StatementQueries @@ ReferenceQueries

(***************************************************************************)
(* The mutations, and the calls pages make without a hook: those           *)
(* invalidate nothing.                                                     *)
(***************************************************************************)

TransactionKey == <<"accounts", "id", "transactions">>

\* Opening and activating return the promise of the invalidation, moving
\* money does not.
AccountMutations ==
     ("useOpenAccount" :> Awaited("openAccount", {<<"accounts">>}))
  @@ ("useActivateAccount" :> Awaited("activateAccount", {<<"accounts">>}))
  @@ ("useDeposit" :> Mutation("depositToAccount", {<<"accounts">>, TransactionKey}))
  @@ ("useWithdraw" :> Mutation("withdrawFromAccount", {<<"accounts">>, TransactionKey}))
  @@ ("useExternalTransfer" :>
        Mutation("transferExternal", {<<"accounts">>, TransactionKey, <<"beneficiaries">>}))
  @@ ("useInternalTransfer" :> Mutation("transferInternal", {<<"accounts">>, TransactionKey}))

BeneficiaryMutations ==
     ("useCreateBeneficiary" :> Awaited("createBeneficiary", {<<"beneficiaries">>}))
  @@ ("useUpdateBeneficiary" :> Awaited("updateBeneficiary", {<<"beneficiaries">>}))
  @@ ("useVerifyBeneficiary" :> Awaited("verifyBeneficiary", {<<"beneficiaries">>}))
  @@ ("useDeleteBeneficiary" :> Awaited("deleteBeneficiary", {<<"beneficiaries">>}))

NotificationMutations ==
     ("useMarkNotificationRead" :> Mutation("markNotificationRead", {<<"notifications">>}))
  @@ ("useMarkAllNotificationsRead" :> Mutation("markAllNotificationsRead", {<<"notifications">>}))

ProfileMutations ==
     ("useUpdateProfile" :> Awaited("updateMyProfile", {<<"profile">>}))
  @@ ("useRecordConsent" :> Awaited("recordConsent", {<<"consents">>}))

ScheduleMutations ==
     ("useCreateScheduledTransfer" :> Awaited("createScheduledTransfer", {<<"scheduled-transfers">>}))
  @@ ("useCancelScheduledTransfer" :> Awaited("cancelScheduledTransfer", {<<"scheduled-transfers">>}))

SecurityMutations ==
     ("useRevokeSession" :> Awaited("revokeSession", {<<"sessions">>}))
  @@ ("useRevokeDevice" :> Awaited("revokeDevice", {<<"devices">>}))

StatementMutations == "useRequestStatement" :> Awaited("requestStatement", {<<"statements">>})

DirectCalls == [call \in {"register", "verifyEmail", "forgotPassword", "resetPassword", "changePassword"}
                  |-> Mutation(call, {})]

Mutations ==
  AccountMutations @@ BeneficiaryMutations @@ NotificationMutations @@ ProfileMutations
  @@ ScheduleMutations @@ SecurityMutations @@ StatementMutations @@ DirectCalls

(***************************************************************************)
(* The components.  Every page below the dashboard layout has the top bar. *)
(***************************************************************************)

AppTopbar == Component({"useUnreadCount"}, NoControls)

DashboardPage ==
  Component({"useAccounts", "useProfile", "useNotifications", "useSessions", "useDevices",
             "useAccountTransactions"}, NoControls)

AccountsPage ==
  Component({"useAccounts"}, "open account" :> Control(<<"useOpenAccount">>, "pending", "toast"))

AccountDetailPage ==
  WithRetry(Component({"useAccount", "useAccountTransactions"},
                      "activate" :> Control(<<"useActivateAccount">>, "pending", "toast")),
            {"useAccount"})

StatementsCard ==
  Component({"useStatements"},
            "request statement" :> Control(<<"useRequestStatement">>, "pending", "toast"))

\* The star and the bin of a row are never disabled.
BeneficiariesPage ==
  Component({"useBeneficiaries"},
            ("add" :> Control(<<"useCreateBeneficiary">>, "pending", "toast"))
         @@ ("star" :> Control(<<"useUpdateBeneficiary">>, "none", "silent"))
         @@ ("verify" :> Control(<<"useVerifyBeneficiary">>, "pending", "toast"))
         @@ ("remove" :> Control(<<"useDeleteBeneficiary">>, "none", "toast")))

\* One of three panels is mounted at a time, so each is a screen of its own.
TransfersPage == Component({"useAccounts"}, NoControls)

\* The server's MFA_REQUIRED replaces the form by a card that asks for the
\* code; the card sends the same values again with it.
StepUp(control) == WithCode(control)

InternalTransferForm ==
  Component({}, "transfer" :> StepUp(Control(<<"useInternalTransfer">>, "pending", "card")))

ExternalTransferForm ==
  Component({"countries"}, "wire" :> StepUp(Control(<<"useExternalTransfer">>, "pending", "card")))

ScheduledTransfersPanel ==
  Component({"useBeneficiaries", "useScheduledTransfers"},
            ("schedule" :> Control(<<"useCreateScheduledTransfer">>, "pending", "toast"))
         @@ ("cancel" :> Control(<<"useCancelScheduledTransfer">>, "none", "toast")))

RecentTransfers == Component({"useAccountTransactions"}, NoControls)

TransferReceiptDialog == Component({"useReceipt"}, NoControls)
TransferSuccessCard == Component({"useReceipt"}, NoControls)

\* Two steps; the second is shown once the mandatory consents are there.
OnboardingPage ==
  Component({"useConsents", "currencies"},
            ("accept" :> Control(<<"useRecordConsent", "useRecordConsent", "useRecordConsent">>,
                                 "pending", "card"))
         @@ ("complete profile" :> Control(<<"useUpdateProfile">>, "pending", "toast")))

ProfilePage ==
  WithRetry(Component({"useProfile", "currencies", "countries"},
                      "save" :> Control(<<"useUpdateProfile">>, "pending", "toast")),
            {"useProfile"})

\* The marketing checkbox is never disabled.
SettingsPage ==
  Component({"useConsents"},
            ("change password" :> Control(<<"changePassword">>, "pending", "toast"))
         @@ ("marketing" :> Control(<<"useRecordConsent">>, "none", "toast")))

SecurityPage ==
  Component({"useSessions", "useDevices"},
            ("end session" :> Control(<<"useRevokeSession">>, "pending", "toast"))
         @@ ("revoke device" :> Control(<<"useRevokeDevice">>, "pending", "toast")))

NotificationsPage ==
  Component({"useNotifications"},
            ("read" :> Control(<<"useMarkNotificationRead">>, "none", "silent"))
         @@ ("read all" :> Control(<<"useMarkAllNotificationsRead">>, "pending", "silent")))

RegisterPage ==
  Component({"countries"}, "register" :> Control(<<"register">>, "pending", "card"))

\* The page says the same whether the address is known, unknown or the call failed.
ForgotPasswordPage == Component({}, "send link" :> Control(<<"forgotPassword">>, "pending", "always"))

ResetPasswordForm == Component({}, "reset" :> Control(<<"resetPassword">>, "pending", "card"))

VerifyEmailForm == Component({}, "verify" :> Control(<<"verifyEmail">>, "mount", "card"))

Screens ==
     ("/dashboard" :> Screen(<<AppTopbar, DashboardPage>>))
  @@ ("/accounts" :> Screen(<<AppTopbar, AccountsPage>>))
  @@ ("/accounts/:id" :> Screen(<<AppTopbar, AccountDetailPage, StatementsCard>>))
  @@ ("/beneficiaries" :> Screen(<<AppTopbar, BeneficiariesPage>>))
  @@ ("/transfers internal" :> Screen(<<AppTopbar, TransfersPage, InternalTransferForm, RecentTransfers>>))
  @@ ("/transfers wire" :> Screen(<<AppTopbar, TransfersPage, ExternalTransferForm, RecentTransfers>>))
  @@ ("/transfers scheduled" :> Screen(<<AppTopbar, TransfersPage, ScheduledTransfersPanel, RecentTransfers>>))
  @@ ("/transfers receipt" :> Screen(<<AppTopbar, TransfersPage, TransferReceiptDialog, RecentTransfers>>))
  @@ ("/transfers done" :> Screen(<<AppTopbar, TransfersPage, TransferSuccessCard, RecentTransfers>>))
  @@ ("/onboarding" :> Screen(<<AppTopbar, OnboardingPage>>))
  @@ ("/profile" :> Screen(<<AppTopbar, ProfilePage>>))
  @@ ("/settings" :> Screen(<<AppTopbar, SettingsPage>>))
  @@ ("/security" :> Screen(<<AppTopbar, SecurityPage>>))
  @@ ("/notifications" :> Screen(<<AppTopbar, NotificationsPage>>))
  @@ ("/register" :> Screen(<<RegisterPage>>))
  @@ ("/forgot-password" :> Screen(<<ForgotPasswordPage>>))
  @@ ("/reset-password" :> Screen(<<ResetPasswordForm>>))
  @@ ("/verify-email" :> Screen(<<VerifyEmailForm>>))
=============================================================================
