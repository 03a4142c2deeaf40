---------------------------- MODULE MCArchiveProxy ----------------------------
(* Instances of ArchiveProxy for TLC. *)
EXTENDS ArchiveProxy

SomeOperations == {"connect", "tryConnect", "startRecording"}
=============================================================================
