------------------------------ MODULE OrderStatus ------------------------------
(***************************************************************************)
(* The order status vocabulary shared by the order modules: the broker's   *)
(* own statuses (entities::order::OrderStatus), the statuses an exchange    *)
(* reports, and the classification the handlers branch on.                  *)
(***************************************************************************)

Status == {"Pending", "Open", "PendingCancel", "Canceled", "Filled", "Expired",
           "Rejected"}

\* The statuses an exchange reports; order_status_to_rest_api_order_status
\* maps each to the broker status of the same name.
ExchangeStatus == {"Open", "Canceled", "Filled", "Expired", "Rejected"}

\* is_order_status_viable: the order may still trade.
Viable == {"Pending", "Open", "PendingCancel"}

Terminal == Status \ Viable

Reasons == {"none", "inactive", "expired", "exchange"}

================================================================================
