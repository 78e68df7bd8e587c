--------------------------- MODULE MCFolderTriggers ---------------------------
(* Small instances of FolderTriggers for TLC.                              *)
EXTENDS FolderTriggers

Assigned(enabled, kind, watch, pause) ==
    [enabled |-> enabled, kind |-> kind, watch |-> watch, pause |-> pause]

\* Watched and on a cron; another quiet period; disabled; an unwatched one-shot
\* under a pause.
SomeConfigs == {Assigned(TRUE, "cron", "q1", "none"), Assigned(TRUE, "cron", "q2", "none"),
                Assigned(FALSE, "cron", "q1", "none"), Assigned(TRUE, "@reboot", "off", "pause")}
=============================================================================
