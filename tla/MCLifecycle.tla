---------------------------- MODULE MCLifecycle ----------------------------
EXTENDS Lifecycle

CONSTANTS p, q

MCProcs == {p, q}
MCCommands == {"create", "mount", "mount_ro", "compact", "rekey", "check"}
=============================================================================
