---------------------- MODULE EventLedgerRefinesQueue ----------------------
(* The lock-free ledger implements the queue the driver relies on.         *)
EXTENDS EventLedger

Abstract == INSTANCE SignalQueue WITH
    phase <- word.phase, pending <- Decode(word)

\* However loads, exchanges and retries of owners and handlers interleave, each
\* change of the ledger's word is one operation of the queue: nothing is lost,
\* reordered or accepted outside an active session (event.rs, ADR 0019).
ImplementsQueue == Abstract!Queue
=============================================================================
