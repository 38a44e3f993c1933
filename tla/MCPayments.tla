----------------------------- MODULE MCPayments -----------------------------
(* A popup that is led to the payment views and a side panel that shows the  *)
(* activity.                                                                 *)
EXTENDS Payments, MCPaymentCodes

CONSTANTS popup, panel

MCReaches == (popup :> Views \ {"activity"}) @@ (panel :> {"home", "activity"})
MCMounts == (popup :> 3) @@ (panel :> 2)

=============================================================================
