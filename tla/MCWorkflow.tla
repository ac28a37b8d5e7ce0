----------------------------- MODULE MCWorkflow -----------------------------
(* Instances of WorkflowOrchestrator for TLC.                              *)
EXTENDS WorkflowOrchestrator

\* One workflow per path through the worker.
MCMetadata ==
    {[type |-> "purchase", txHash |-> TRUE, tokenURI |-> FALSE],
     [type |-> "purchase", txHash |-> FALSE, tokenURI |-> FALSE],
     [type |-> "material_registration", txHash |-> TRUE, tokenURI |-> TRUE],
     [type |-> "material_registration", txHash |-> FALSE, tokenURI |-> TRUE],
     [type |-> "unknown", txHash |-> FALSE, tokenURI |-> FALSE]}
=============================================================================
