------------------------- MODULE MCRecordingClients -------------------------
\* Small instances of RecordingClients: three bits for std::int32_t, terms of two
\* positions, and a first term id that wraps.
EXTENDS RecordingClients

MCPrograms == {"publisher", "operations", "search", "throughput"}
MCReplaySessions == {-3, 3}
=============================================================================
