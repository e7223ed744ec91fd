----------------------- MODULE TradeOrderStateMachine -----------------------
(***************************************************************************)
(* The states of one broker order and the transitions that                 *)
(* TradeAutomationService.transition accepts                               *)
(* (services/trade-order-state-machine.service.ts).  A constant module:    *)
(* the components that move an order extend it.                            *)
(***************************************************************************)

OrderStates ==
  { "PLANNED", "APPROVAL_PENDING", "SUBMITTED", "ACCEPTED", "PARTIALLY_FILLED",
    "FILLED", "CANCEL_REQUESTED", "CANCELED", "REJECTED", "EXPIRED",
    "RECOVERY_REQUIRED" }

\* Each state and the states an order in it may move to.
TRANSITIONS ==
  [ PLANNED           |-> {"APPROVAL_PENDING", "SUBMITTED", "REJECTED", "EXPIRED"},
    APPROVAL_PENDING  |-> {"SUBMITTED", "REJECTED", "EXPIRED"},
    SUBMITTED         |-> {"SUBMITTED", "ACCEPTED", "PARTIALLY_FILLED", "FILLED",
                           "CANCEL_REQUESTED", "REJECTED", "RECOVERY_REQUIRED"},
    ACCEPTED          |-> {"ACCEPTED", "PARTIALLY_FILLED", "FILLED",
                           "CANCEL_REQUESTED", "REJECTED", "RECOVERY_REQUIRED"},
    PARTIALLY_FILLED  |-> {"PARTIALLY_FILLED", "FILLED", "CANCEL_REQUESTED",
                           "RECOVERY_REQUIRED"},
    FILLED            |-> {},
    CANCEL_REQUESTED  |-> {"CANCEL_REQUESTED", "CANCELED", "PARTIALLY_FILLED",
                           "FILLED", "RECOVERY_REQUIRED"},
    CANCELED          |-> {},
    REJECTED          |-> {},
    EXPIRED           |-> {},
    RECOVERY_REQUIRED |-> {"RECOVERY_REQUIRED", "ACCEPTED", "PARTIALLY_FILLED",
                           "FILLED", "CANCEL_REQUESTED", "CANCELED", "REJECTED"} ]

canTransitionOrder(from, to) == to \in TRANSITIONS[from]

TerminalStates == {"FILLED", "CANCELED", "REJECTED", "EXPIRED"}

isTerminalOrderState(state) == state \in TerminalStates
=============================================================================
