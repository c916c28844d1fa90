---------------------------- MODULE ActionStatus ----------------------------
(***************************************************************************)
(* The status column of the actions table (store/models.py, ActionStatus), *)
(* with "NONE" for an action_id that has no row.                           *)
(***************************************************************************)

NoRow == "NONE"

\* The ways a held action can end.  A verdict is a human's; EXPIRED is the
\* hold timeout's or the startup sweep's.
Verdicts == {"APPROVED", "DENIED"}

Resolutions == Verdicts \cup {"EXPIRED"}

Statuses == {"PENDING", "AUTO_ALLOWED"} \cup Resolutions

RowValues == Statuses \cup {NoRow}

\* A row in one of these never changes again.
Terminal == Statuses \ {"PENDING"}

\* The statuses under which the gateway runs the tool.
Allowed == {"APPROVED", "AUTO_ALLOWED"}

Refused == {"DENIED", "EXPIRED"}

\* What may replace what in one visible change of a row.
Moves == ({NoRow} \X Statuses) \cup ({"PENDING"} \X Resolutions)
=============================================================================
