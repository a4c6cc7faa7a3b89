----------------------------- MODULE MCLifecycle -----------------------------
EXTENDS VaultLifecycle
=============================================================================
