---- MODULE MCWebhook ----
(***************************************************************************)
(* Instances of Webhook for TLC.                                           *)
(***************************************************************************)
EXTENDS Webhook

CONSTANTS d1, d2, t1, t2

Says(kind, sid, tenant, customer, status, plan) ==
    [kind |-> kind, sid |-> sid, tenant |-> tenant, customer |-> customer,
     status |-> status, plan |-> plan]

\* A checkout, a missed payment, a downgrade on trial, and a payment.
PaymentsHistory ==
    <<Says("checkout", "s1", t1, t1, "active", "PRO"),
      Says("payment_failed", "s1", NoTenant, t1, "active", Keep),
      Says("updated", "s1", NoTenant, t1, "trialing", "FREE"),
      Says("payment_succeeded", "s1", NoTenant, t1, "active", Keep),
      Says("other", "s1", t1, t1, "active", Keep)>>

\* Two subscriptions, one of a customer without a tenant, and the end of one.
TwoCustomersHistory ==
    <<Says("checkout", "s1", t1, t1, "active", "PRO"),
      Says("checkout", "s2", NoTenant, t2, "active", "PRO"),
      Says("created", "s2", NoTenant, t2, "incomplete", "PRO"),
      Says("updated", "s2", NoTenant, t2, "active", "FREE"),
      Says("deleted", "s1", NoTenant, t1, "canceled", Keep)>>

\* Events of one new subscription that overtake each other, one of them with a
\* status the service does not know.
RacingHistory ==
    <<Says("checkout", "s1", t1, t1, "active", "PRO"),
      Says("created", "s1", t1, t1, "incomplete", "PRO"),
      Says("updated", "s1", NoTenant, t1, "past_due", "FREE"),
      Says("updated", "s1", NoTenant, t1, "unknown", "PRO")>>

\* One tenant that buys two subscriptions, and a customer without a tenant.
TwoSubscriptionsHistory ==
    <<Says("checkout", "s1", t1, t1, "active", "PRO"),
      Says("created", "s2", t1, t1, "active", "FREE"),
      Says("checkout", "s3", NoTenant, t2, "active", "FREE"),
      Says("payment_failed", "s3", NoTenant, t2, "active", Keep)>>

\* customer.subscription.created overtakes the checkout that makes its row; the
\* checkout endpoint puts no tenant into its metadata.
OvertakingHistory ==
    <<Says("created", "s1", NoTenant, t1, "incomplete", "PRO"),
      Says("checkout", "s1", t1, t1, "active", "PRO"),
      Says("updated", "s1", NoTenant, t1, "trialing", "FREE"),
      Says("checkout", "s2", NoTenant, t2, "active", "FREE")>>

UpgradeHistory ==
    <<Says("checkout", "s1", t1, t1, "active", "PRO"),
      Says("updated", "s1", NoTenant, t1, "active", "PRO")>>

InOrder == {PaymentsHistory, TwoCustomersHistory}
Serial  == InOrder \cup {OvertakingHistory}
Races   == {RacingHistory, TwoSubscriptionsHistory}
Upgrades == {UpgradeHistory}

NoRows == [t \in Tenants |-> NoRow]

\* The FREE row without a Stripe subscription that seed.py and the tests create.
SeededRow ==
    [t \in Tenants |-> IF t = t1 THEN [sid |-> NoSid, status |-> "active", plan |-> "FREE"]
                       ELSE NoRow]

====
