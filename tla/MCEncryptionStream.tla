-------------------------- MODULE MCEncryptionStream --------------------------
(* Small instances of EncryptionStream.                                    *)
EXTENDS EncryptionStream
=============================================================================
