------------------------------ MODULE Revisions ------------------------------
(***************************************************************************)
(* What each Alembic revision of the repository puts into the database.    *)
(*                                                                         *)
(* A revision is a record: the tables it creates and the columns it adds   *)
(* to a table of an earlier one (`objects', a pair <<table, column>>,      *)
(* with "*" for the table itself), the uniqueness it moves from the whole  *)
(* database to one company (`keys'), the permissions it inserts, the roles *)
(* it grants them to, the modules they are linked to (`links'), and the    *)
(* roles and the modules it inserts.  Types, defaults, indices, foreign    *)
(* keys and the columns a table is created with are left out.              *)
(***************************************************************************)
EXTENDS Naturals, Sequences

Tables(ts)      == {<<t, "*">> : t \in ts}
Columns(t, cs)  == {<<t, c>> : c \in cs}
InEach(ts, c)   == {<<t, c>> : t \in ts}

Nothing == [objects |-> {}, keys |-> {}, permissions |-> {}, grants |-> {},
            links |-> {}, roles |-> {}, modules |-> {}]

\* The two administrators of a company that the first seeds grant to.
ADMIN_ROLES == {"superadmin", "admin"}

-----------------------------------------------------------------------------
Rev0001 == [Nothing EXCEPT
    !.objects     = Tables({"permissions", "roles", "users", "role_permissions",
                            "user_roles", "refresh_tokens", "user_addresses",
                            "password_reset_tokens", "email_verification_tokens",
                            "audit_events"}),
    !.roles       = {"superadmin", "admin", "store_manager", "cashier", "client"},
    !.permissions = {"users.read", "users.write", "roles.read", "roles.write",
                     "audit.read"},
    !.grants      = ADMIN_ROLES \X {"users.read", "users.write", "roles.read",
                                    "roles.write", "audit.read"}]

Rev0002Seed == {"catalog.read", "catalog.write", "suppliers.read",
                "suppliers.write", "branches.read", "branches.write"}

Rev0002 == [Nothing EXCEPT
    !.objects     = Tables({"cities", "suppliers", "branches", "cash_points",
                            "categories", "sizes", "colors", "seasons",
                            "collections", "products", "product_variants",
                            "product_images", "ar_assets", "product_suppliers"}),
    !.permissions = Rev0002Seed,
    !.grants      = ADMIN_ROLES \X Rev0002Seed]

Rev0003Seed == {"commerce.read", "commerce.write", "stock.read", "stock.write",
                "dashboard.read"}

Rev0003 == [Nothing EXCEPT
    !.objects     = Tables({"commerce_stock", "commerce_cart_items",
                            "commerce_orders", "commerce_webhook_events"}),
    !.permissions = Rev0003Seed,
    !.grants      = ADMIN_ROLES \X Rev0003Seed]

Rev0004 == [Nothing EXCEPT
    !.objects = Columns("user_addresses", {"postal_code", "country"})]

Rev0005 == [Nothing EXCEPT
    !.objects     = Tables({"reservations"}),
    !.permissions = {"reservations.read", "reservations.write"},
    !.grants      = (ADMIN_ROLES \union {"store_manager"})
                        \X {"reservations.read", "reservations.write"}]

Rev0006 == [Nothing EXCEPT
    !.objects = Columns("reservations", {"client_key"})]

Rev0007 == [Nothing EXCEPT
    !.objects = Columns("commerce_orders", {"paid_at"})]

Rev0008 == [Nothing EXCEPT
    !.objects = Tables({"commerce_stock_movements"})
                \union Columns("commerce_orders",
                       {"sales_channel", "cash_point_id", "cashier_user_id",
                        "client_request_id", "request_fingerprint"})]

Rev0009 == [Nothing EXCEPT
    !.objects = Columns("reservations", {"inventory_held"})]

Rev0010 == [Nothing EXCEPT
    !.objects = Tables({"virtual_tryon_assets"})]

Rev0011 == [Nothing EXCEPT
    !.objects = Columns("branches", {"notification_email"})]

Rev0012 == [Nothing EXCEPT
    !.objects = Tables({"commerce_order_returns"})]

Rev0013 == [Nothing EXCEPT
    !.objects = Columns("virtual_tryon_assets",
                {"quality_score", "quality_reason", "preview_url", "reviewed_by"})]

Rev0014 == [Nothing EXCEPT
    !.objects = Tables({"tryon_ai_jobs"})]

Rev0015 == [Nothing EXCEPT
    !.objects = Tables({"commerce_promotions", "commerce_promotion_uses",
                        "commerce_favorites"})
                \union Columns("commerce_orders",
                       {"subtotal", "discount_total", "discounts", "coupon_code"})]

-----------------------------------------------------------------------------
\* The companies: from here on a key of `keys' is unique per company.
Rev0016 == [Nothing EXCEPT
    !.objects     = Tables({"tenants", "plans", "plan_features", "subscriptions"})
                    \union InEach({"users", "branches", "cash_points", "products",
                                   "reservations"}, "tenant_id"),
    !.keys        = {"branches", "products"},
    !.roles       = {"platform_admin"},
    !.permissions = {"tenants.read", "tenants.write", "plans.read", "plans.write",
                     "subscriptions.read", "subscriptions.write",
                     "my_subscription.read"},
    !.grants      = ({"platform_admin"} \X
                        {"tenants.read", "tenants.write", "plans.read",
                         "plans.write", "subscriptions.read", "subscriptions.write"})
                    \union (ADMIN_ROLES \X {"my_subscription.read"})]

Rev0017 == [Nothing EXCEPT
    !.objects = Columns("reservations", {"origin", "device_id",
                                         "client_created_at", "created_by_id"})]

\* 0018 moves rows of users only.
Rev0018 == Nothing

\* The dictionaries of the catalogue.
Dictionaries == {"categories", "sizes", "colors", "seasons", "collections",
                 "suppliers"}

Rev0019 == [Nothing EXCEPT
    !.objects = Tables({"_rs_catalog_copies"})
                \union InEach(Dictionaries, "tenant_id"),
    !.keys    = Dictionaries]

Rev0020 == [Nothing EXCEPT
    !.objects = InEach({"commerce_orders", "commerce_order_returns",
                        "commerce_promotions", "virtual_tryon_assets",
                        "tryon_ai_jobs"}, "tenant_id"),
    !.keys    = {"commerce_promotions"}]

Rev0021 == [Nothing EXCEPT
    !.objects     = Tables({"support_sessions"})
                    \union {<<"roles", "tenant_id">>, <<"permissions", "scope">>}
                    \union Columns("audit_events",
                                   {"tenant_id", "support_session_id"}),
    !.keys        = {"roles"},
    !.permissions = {"support.access", "platform_users.read",
                     "platform_users.write", "platform_audit.read",
                     "tenant_profile.write", "support_sessions.read",
                     "cities.write"},
    !.grants      = ({"platform_admin"} \X
                        {"support.access", "platform_users.read",
                         "platform_users.write", "platform_audit.read",
                         "cities.write"})
                    \union (ADMIN_ROLES \X {"tenant_profile.write",
                                            "support_sessions.read"})]

\* The permissions of the platform, as 0021 and the later seeds mark them.
PlatformScope ==
    {"tenants.read", "tenants.write", "plans.read", "plans.write",
     "subscriptions.read", "subscriptions.write", "support.access",
     "platform_users.read", "platform_users.write", "platform_audit.read",
     "cities.write", "modules.read", "modules.write", "platform_roles.read",
     "platform_roles.write", "tenant_users.write", "sandbox.manage",
     "catalog_templates.write", "upgrade_requests.manage", "ml_models.manage",
     "platform.ops.read", "platform.ops.write", "support.emergency"}

PLATFORM_ROLES == {"platform_admin", "platform_support", "platform_billing",
                   "platform_auditor"}

-----------------------------------------------------------------------------
\* 0029 comes after 0021 in the chain: platform governance.
Rev0029Modules ==
    {"products", "inventory", "sales", "reservations", "offline",
     "conventional_reports", "ai_reports", "ml_analytics", "promotions",
     "virtual_tryon", "exchanges", "devices_audit"}

Rev0029Seed == {"modules.read", "modules.write", "platform_roles.read",
                "platform_roles.write", "tenant_users.write", "sandbox.manage"}

Rev0029Grants ==
    ({"platform_admin"} \X Rev0029Seed)
    \union ({"platform_support"} \X
        {"tenants.read", "platform_users.read", "tenant_users.write",
         "support.access", "support_sessions.read", "platform_audit.read",
         "modules.read"})
    \union ({"platform_billing"} \X
        {"tenants.read", "plans.read", "plans.write", "subscriptions.read",
         "subscriptions.write", "modules.read"})
    \union ({"platform_auditor"} \X
        {"tenants.read", "plans.read", "subscriptions.read",
         "platform_users.read", "platform_audit.read", "modules.read",
         "platform_roles.read"})

Rev0029 == [Nothing EXCEPT
    !.objects     = Tables({"platform_modules", "module_permissions",
                            "tenant_modules", "tenant_limits"})
                    \union Columns("support_sessions", {"mode", "landing_module"})
                    \union {<<"tenants", "is_sandbox">>, <<"roles", "audience">>,
                            <<"users", "must_change_password">>},
    !.modules     = Rev0029Modules,
    !.links       = ({"products"} \X {"catalog.read", "catalog.write",
                                      "suppliers.read", "suppliers.write"})
                    \union ({"inventory"} \X {"stock.read", "stock.write"})
                    \union ({"sales"} \X {"commerce.read", "commerce.write"})
                    \union ({"reservations"} \X
                                {"reservations.read", "reservations.write"}),
    !.roles       = PLATFORM_ROLES \ {"platform_admin"},
    !.permissions = Rev0029Seed,
    !.grants      = Rev0029Grants]

\* The grants of 0030 look the roles up by a name none of them has.
Rev0030 == [Nothing EXCEPT
    !.objects     = Tables({"tenant_payment_methods", "catalog_templates",
                            "catalog_template_imports", "upgrade_requests",
                            "usage_alerts"})
                    \union Columns("tenants",
                           {"is_published", "published_at", "logo_url",
                            "banner_url", "brand_color", "slogan", "about",
                            "whatsapp", "social_links", "shipping_policy",
                            "seo_title", "seo_description", "city",
                            "is_featured"}),
    !.permissions = {"storefront.write", "payment_methods.write",
                     "catalog_templates.write", "upgrade_requests.manage"}]

Rev0022 == [Nothing EXCEPT
    !.objects = Tables({"user_branches"})
                \union Columns("commerce_orders",
                       {"origin", "device_id", "client_created_at",
                        "local_folio", "cash_received"})]

Rev0023Conflicts == {"sync_conflicts.read", "sync_conflicts.resolve",
                     "sync_log.read"}

Rev0023 == [Nothing EXCEPT
    !.objects     = Tables({"sync_batches", "sync_operations", "sync_conflicts"})
                    \union Columns("commerce_orders",
                           {"price_authorized_by", "offline_adjustment"}),
    !.permissions = {"sync.write"} \union Rev0023Conflicts,
    !.grants      = ({"cashier", "store_manager", "admin", "client"}
                        \X {"sync.write"})
                    \union ({"store_manager", "admin"} \X Rev0023Conflicts),
    !.links       = {"offline"} \X ({"sync.write"} \union Rev0023Conflicts)]

Rev0024 == [Nothing EXCEPT
    !.objects     = Tables({"ml_training_runs", "ml_models", "ml_predictions",
                            "ml_customer_segments", "ml_anomalies"})
                    \union Columns("ml_models", {"artifact", "artifact_bytes",
                                                 "artifact_sha256"}),
    !.permissions = {"ml_dashboard.read", "ml_models.manage"},
    !.grants      = {<<"admin", "ml_dashboard.read">>,
                     <<"admin", "ml_models.manage">>,
                     <<"platform_admin", "ml_models.manage">>},
    !.links       = {<<"ml_analytics", "ml_dashboard.read">>}]

Rev0025 == [Nothing EXCEPT
    !.objects     = Tables({"commerce_garment_exchanges",
                            "commerce_garment_exchange_lines"})
                    \union Columns("tenants", {"exchange_days"}),
    !.permissions = {"exchanges.read", "exchanges.write"},
    !.grants      = {"admin"} \X {"exchanges.read", "exchanges.write"},
    !.links       = {"exchanges"} \X {"exchanges.read", "exchanges.write"}]

Rev0026 == [Nothing EXCEPT
    !.objects     = Tables({"report_requests"}),
    !.permissions = {"ai_reports.use", "ai_reports.history"},
    !.grants      = {"admin"} \X {"ai_reports.use", "ai_reports.history"},
    !.links       = {"ai_reports"} \X {"ai_reports.use", "ai_reports.history"}]

Rev0027 == [Nothing EXCEPT
    !.objects     = Tables({"promotion_targets"})
                    \union Columns("commerce_promotions",
                           {"applies_online", "applies_pos", "applies_offline",
                            "deactivated_at", "deactivated_by", "updated_by"})
                    \union {<<"commerce_promotion_uses", "channel">>},
    !.permissions = {"promotions.read", "promotions.write"},
    !.grants      = ((ADMIN_ROLES \union {"store_manager"}) \X
                        {"promotions.read", "promotions.write"})
                    \union {<<"cashier", "promotions.read">>},
    !.links       = {"promotions"} \X {"promotions.read", "promotions.write"}]

\* The grants of 0028 look for names that 0021 has changed.
Rev0028 == [Nothing EXCEPT
    !.objects     = Tables({"devices"}),
    !.permissions = {"devices.read", "devices.write"},
    !.links       = {"devices_audit"} \X {"devices.read", "devices.write"}]

-----------------------------------------------------------------------------
\* 0031 makes sure of what a database may lack: Migrations says how.
Rev0031Tenants == Columns("tenants", {"is_published", "published_at", "logo_url",
                    "banner_url", "brand_color", "slogan", "about", "whatsapp",
                    "social_links", "shipping_policy", "seo_title",
                    "seo_description", "city", "is_featured"})

Rev0031Users == {<<"users", "must_change_password">>}

Rev0031Models == Columns("ml_models", {"artifact", "artifact_bytes",
                                       "artifact_sha256"})

Rev0031Requests == Tables({"report_requests"})

Rev0031Storefront == Tables({"tenant_payment_methods", "catalog_templates",
                             "catalog_template_imports", "upgrade_requests",
                             "usage_alerts"})

Rev0031Seed == {"ai_reports.use", "ai_reports.history", "storefront.write",
                "payment_methods.write", "catalog_templates.write",
                "upgrade_requests.manage"}

Rev0031Grants ==
    ({"admin"} \X {"ai_reports.use", "ai_reports.history"})
    \union ((ADMIN_ROLES \union {"store_manager"}) \X
                {"storefront.write", "payment_methods.write"})
    \union ({"platform_admin"} \X
                {"catalog_templates.write", "upgrade_requests.manage"})

Rev0031 == [Nothing EXCEPT
    !.objects     = Rev0031Tenants \union Rev0031Users \union Rev0031Models
                    \union Rev0031Requests \union Rev0031Storefront,
    !.permissions = Rev0031Seed,
    !.grants      = Rev0031Grants,
    !.links       = {"ai_reports"} \X {"ai_reports.use", "ai_reports.history"}]

Rev0032 == [Nothing EXCEPT
    !.objects     = Tables({"platform_backups"}),
    !.permissions = {"platform.ops.read", "platform.ops.write",
                     "tenant.data_export"},
    !.grants      = ({"platform_admin"} \X
                        {"platform.ops.read", "platform.ops.write"})
                    \union {<<"admin", "tenant.data_export">>}]

Rev0035 == [Nothing EXCEPT
    !.objects     = Columns("support_sessions",
                        {"status", "approved_by_user_id", "approved_at",
                         "decision_reason", "request_expires_at", "is_emergency"})
                    \union {<<"tenants", "support_access_mode">>},
    !.permissions = {"support_access.approve", "support.emergency"},
    !.grants      = (ADMIN_ROLES \X {"support_access.approve"})
                    \union {<<"platform_admin", "support.emergency">>}]

Rev0036 == [Nothing EXCEPT
    !.objects = Tables({"job_runs", "subscription_notices"})
                \union Columns("subscriptions",
                       {"grace_until", "read_only_since", "canceled_at",
                        "data_retention_until"})]

Rev0037 == [Nothing EXCEPT
    !.objects     = Tables({"subscription_invoices"}),
    !.permissions = {"billing.read"},
    !.grants      = ADMIN_ROLES \X {"billing.read"}]

Rev0038 == [Nothing EXCEPT
    !.objects = Tables({"legal_documents", "legal_acceptances",
                        "tenant_signups"})]

Rev0039 == [Nothing EXCEPT
    !.objects = Columns("refresh_tokens", {"device_label", "user_agent",
                                           "ip_prefix", "last_used_at"})]

Rev0040 == [Nothing EXCEPT
    !.objects     = Tables({"api_keys", "webhook_endpoints",
                            "integration_events", "webhook_deliveries"}),
    !.modules     = {"integrations"},
    !.permissions = {"integrations.read", "integrations.write"},
    !.grants      = {"admin"} \X {"integrations.read", "integrations.write"},
    !.links       = {"integrations"} \X
                        {"integrations.read", "integrations.write"}]

\* The policies of 0041, one per table of the pilot.
Rev0041 == [Nothing EXCEPT
    !.objects = InEach({"products", "commerce_orders", "reservations"},
                       "tenant_isolation")]

Rev0042 == [Nothing EXCEPT
    !.objects     = Tables({"tenant_payment_accounts", "stripe_events"})
                    \union {<<"plans", "stripe_price_id_month">>,
                            <<"tenants", "stripe_customer_id">>,
                            <<"subscriptions", "stripe_subscription_id">>},
    !.permissions = {"billing.manage"},
    !.grants      = {<<"admin", "billing.manage">>}]

Rev0043 == [Nothing EXCEPT
    !.objects = Columns("commerce_orders", {"stripe_account_id"})]

-----------------------------------------------------------------------------
\* The order of down_revision; 0033 and 0034 do not exist.
Chain ==
    <<Rev0001, Rev0002, Rev0003, Rev0004, Rev0005, Rev0006, Rev0007, Rev0008,
      Rev0009, Rev0010, Rev0011, Rev0012, Rev0013, Rev0014, Rev0015, Rev0016,
      Rev0017, Rev0018, Rev0019, Rev0020, Rev0021, Rev0029, Rev0030, Rev0022,
      Rev0023, Rev0024, Rev0025, Rev0026, Rev0027, Rev0028, Rev0031, Rev0032,
      Rev0035, Rev0036, Rev0037, Rev0038, Rev0039, Rev0040, Rev0041, Rev0042,
      Rev0043>>

\* The places in the chain that other code or other revisions speak of.
Position == [r0008 |-> 8, r0016 |-> 16, r0018 |-> 18, r0019 |-> 19,
             r0020 |-> 20, r0021 |-> 21, r0024 |-> 26, r0028 |-> 30,
             r0031 |-> 31, last |-> 41]

=============================================================================
