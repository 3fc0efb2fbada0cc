------------------------------- MODULE CardState -------------------------------
(***************************************************************************)
(* SdCardStateMachine: the states each operation is valid in and the state *)
(* it leads to.  An operation that is not valid returns InvalidTransition, *)
(* which its callers drop, and changes nothing.                            *)
(***************************************************************************)
CardStates == {"PowerUp", "Idle", "Ready", "Transfer", "ReceivingData", "Busy", "Fault"}

From ==
    [finish_power_up |-> {"PowerUp"},
     reset |-> CardStates \ {"PowerUp", "Fault"},
     enter_idle |-> CardStates,
     make_ready |-> {"Idle"},
     begin_transfer |-> {"Ready", "Transfer"},
     begin_receiving_data |-> {"Transfer"},
     begin_busy |-> {"ReceivingData"},
     finish_busy |-> {"Busy"},
     finish_receiving_data |-> {"ReceivingData"},
     fault |-> CardStates]

Into ==
    [finish_power_up |-> "Idle", reset |-> "Idle", enter_idle |-> "Idle",
     make_ready |-> "Ready",
     begin_transfer |-> "Transfer", finish_busy |-> "Transfer", finish_receiving_data |-> "Transfer",
     begin_receiving_data |-> "ReceivingData",
     begin_busy |-> "Busy", fault |-> "Fault"]

After(state, operation) == IF state \in From[operation] THEN Into[operation] ELSE state
=============================================================================
