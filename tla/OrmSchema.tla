------------------------------- MODULE OrmSchema -------------------------------
(***************************************************************************)
(* What the ORM models of the code expect of the database, one definition  *)
(* per file of models: its tables, and the columns of theirs that later    *)
(* revisions added.  `alembic check' compares the two in CI for a database *)
(* upgraded from empty; SchemaIsOrm does for every path of Migrations.     *)
(***************************************************************************)
EXTENDS Migrations

LOCAL Table(t, late) == Tables({t}) \union Columns(t, late)

OrmUser == Table("users", {"tenant_id", "must_change_password"})

OrmRefreshToken ==
    Table("refresh_tokens", {"device_label", "user_agent", "ip_prefix", "last_used_at"})

OrmPasswordReset     == Table("password_reset_tokens", {})
OrmEmailVerification == Table("email_verification_tokens", {})

OrmAuditEvent == Table("audit_events", {"tenant_id", "support_session_id"})

OrmPermission == Table("permissions", {"scope"}) \union Tables({"role_permissions"})

OrmRole == Table("roles", {"tenant_id", "audience"}) \union Tables({"user_roles"})

OrmAddress == Table("user_addresses", {"postal_code", "country"})

-----------------------------------------------------------------------------
OrmOrganization ==
    Tables({"cities", "user_branches"})
    \union Table("suppliers", {"tenant_id"})
    \union Table("branches", {"tenant_id", "notification_email"})
    \union Table("cash_points", {"tenant_id"})

OrmCatalog ==
    Tables({"categories", "sizes", "colors", "seasons", "collections", "products",
            "product_variants", "product_images", "ar_assets", "product_suppliers"})
    \union InEach({"categories", "sizes", "colors", "seasons", "collections",
                   "products"}, "tenant_id")

OrmReservation ==
    Table("reservations", {"tenant_id", "client_key", "inventory_held", "origin",
                           "device_id", "client_created_at", "created_by_id"})

OrmTryOnAsset ==
    Table("virtual_tryon_assets", {"tenant_id", "quality_score", "quality_reason",
                                   "preview_url", "reviewed_by"})

OrmTryOnJob == Table("tryon_ai_jobs", {"tenant_id"})

-----------------------------------------------------------------------------
OrmCommerce ==
    Tables({"commerce_stock", "commerce_cart_items", "commerce_webhook_events",
            "commerce_stock_movements"})
    \union Table("commerce_order_returns", {"tenant_id"})
    \union Table("commerce_orders",
             {"tenant_id", "paid_at", "sales_channel", "cash_point_id",
              "cashier_user_id", "client_request_id", "request_fingerprint",
              "subtotal", "discount_total", "discounts", "coupon_code", "origin",
              "device_id", "client_created_at", "local_folio", "cash_received",
              "price_authorized_by", "offline_adjustment", "stripe_account_id"})

OrmEngagement ==
    Tables({"promotion_targets", "commerce_favorites"})
    \union Table("commerce_promotion_uses", {"channel"})
    \union Table("commerce_promotions",
             {"tenant_id", "applies_online", "applies_pos", "applies_offline",
              "deactivated_at", "deactivated_by", "updated_by"})

OrmExchange ==
    Tables({"commerce_garment_exchanges", "commerce_garment_exchange_lines"})

OrmSync == Tables({"sync_batches", "sync_operations", "sync_conflicts"})

OrmDevice == Tables({"devices"})

OrmIntegrations ==
    Tables({"api_keys", "webhook_endpoints", "integration_events",
            "webhook_deliveries"})

OrmReportRequest == Tables({"report_requests"})

OrmMl ==
    Tables({"ml_training_runs", "ml_predictions", "ml_customer_segments",
            "ml_anomalies"})
    \union Table("ml_models", {"artifact", "artifact_bytes", "artifact_sha256"})

-----------------------------------------------------------------------------
OrmTenant ==
    Table("tenants",
      {"exchange_days", "is_sandbox", "is_published", "published_at", "logo_url",
       "banner_url", "brand_color", "slogan", "about", "whatsapp", "social_links",
       "shipping_policy", "seo_title", "seo_description", "city", "is_featured",
       "support_access_mode", "stripe_customer_id"})

OrmPlan == Table("plans", {"stripe_price_id_month"}) \union Tables({"plan_features"})

OrmSubscription ==
    Tables({"subscription_notices", "subscription_invoices"})
    \union Table("subscriptions",
             {"grace_until", "read_only_since", "canceled_at",
              "data_retention_until", "stripe_subscription_id"})

OrmSupportSession ==
    Table("support_sessions",
      {"mode", "landing_module", "status", "approved_by_user_id", "approved_at",
       "decision_reason", "request_expires_at", "is_emergency"})

OrmModule ==
    Tables({"platform_modules", "module_permissions", "tenant_modules",
            "tenant_limits"})

OrmStorefront ==
    Tables({"tenant_payment_methods", "catalog_templates",
            "catalog_template_imports", "upgrade_requests", "usage_alerts"})

OrmStripe == Tables({"tenant_payment_accounts", "stripe_events"})

OrmSignup == Tables({"legal_documents", "legal_acceptances", "tenant_signups"})

OrmOps == Tables({"platform_backups", "job_runs"})

Orm ==
    UNION {OrmUser, OrmRefreshToken, OrmPasswordReset, OrmEmailVerification,
           OrmAuditEvent, OrmPermission, OrmRole, OrmAddress, OrmOrganization,
           OrmCatalog, OrmReservation, OrmTryOnAsset, OrmTryOnJob, OrmCommerce,
           OrmEngagement, OrmExchange, OrmSync, OrmDevice, OrmIntegrations,
           OrmReportRequest, OrmMl, OrmTenant, OrmPlan, OrmSubscription,
           OrmSupportSession, OrmModule, OrmStorefront, OrmStripe, OrmSignup,
           OrmOps}

\* The policies of 0041 are not part of the metadata.
Policies == InEach({"products", "commerce_orders", "reservations"}, "tenant_isolation")

-----------------------------------------------------------------------------
\* At the last revision the database has the tables and the columns the models
\* of the code name and no others, whatever path it took: from empty, up and
\* down in any order, or repaired from the schema production once had.
SchemaIsOrm == at = Position.last => db.objects \ Policies = Orm

=============================================================================
