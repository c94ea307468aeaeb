--------------------------- MODULE MCBackupCrypto ---------------------------
(* Dumps of up to three bytes, a header of six. *)
EXTENDS BackupCrypto

CONSTANTS a, b, p, q

Dumps == {<<>>, <<a>>, <<a, b, a>>}
=============================================================================
