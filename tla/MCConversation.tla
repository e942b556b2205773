--------------------------- MODULE MCConversation ---------------------------
EXTENDS Conversation

\* Every call of the library but those with the steps, request size and replies of
\* another.
SomeCalls == {"esd_lock", "esd_standby", "esd_get_latency", "esd_play_stream",
              "esd_sample_cache", "esd_confirm_sample_cache", "esd_sample_getid",
              "esd_sample_play", "esd_sample_kill", "esd_get_all_info",
              "esd_set_stream_pan"}
SomeMistakes == {"LOCK", "LATENCY", "INVALID"}
============================================================================
