------------------------- MODULE GovernanceCatalog -------------------------
(***************************************************************************)
(* Which administrator may do what (libs/admin_governance, catalog.py and  *)
(* policy.py). A governed action asks for the role admin, for a level and  *)
(* perhaps for a confirmation token. No variables.                         *)
(***************************************************************************)
EXTENDS Naturals

\* default_action_catalog: the actions that ask for a token, which all ask for
\* level 5, and the others.
Confirmed   == {"signals.cleanup_all", "jobs.cleanup_all", "trading.refresh_prices",
                "trading.process_pending", "trading.batch_execute", "trading.account_cleanup"}
Unconfirmed == {"signals.cleanup_execution_history", "trading.calculate_daily_stats",
                "trading.risk_monitor", "risk.batch_maintain", "admin_create_user",
                "users.read_all", "users.update", "users.delete"}

MinLevel(action) ==
  CASE action \in Confirmed \cup {"signals.cleanup_execution_history"} -> 5
    [] action \in {"trading.calculate_daily_stats", "trading.risk_monitor"} -> 4
    [] action = "risk.batch_maintain" -> 3
    [] OTHER -> 2

\* The role and level check of GovernancePolicyEngine.authorize.
Permits(role, level, action) ==
  /\ action \in Confirmed \cup Unconfirmed
  /\ role = "admin" /\ level >= MinLevel(action)
=============================================================================
