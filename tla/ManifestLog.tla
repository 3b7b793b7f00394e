----------------------------- MODULE ManifestLog -----------------------------
(***************************************************************************)
(* What a device may expect of its manifests: they form a log to which     *)
(* every write is added at most once, however often it is sent; a write is *)
(* acknowledged with the version it has in the log; and after the device   *)
(* has been revoked the log does not grow.                                 *)
(***************************************************************************)
EXTENDS Naturals, Sequences

CONSTANTS Writes

VARIABLES
    log,      \* the writes stored, in the order of their versions
    acked,    \* the acknowledgements given, pairs of a write and a version
    open      \* whether the device is active

logVars == <<log, acked, open>>

Entries(l) == {l[v] : v \in 1..Len(l)}

Add(w) ==
    /\ open /\ w \notin Entries(log)
    /\ log' = Append(log, w)
    /\ UNCHANGED <<acked, open>>

Acknowledge(w, v) ==
    /\ v \in 1..Len(log) /\ log[v] = w
    /\ acked' = acked \cup {<<w, v>>}
    /\ UNCHANGED <<log, open>>

Close ==
    /\ open
    /\ open' = FALSE
    /\ UNCHANGED <<log, acked>>

LogInit == log = <<>> /\ acked = {} /\ open = TRUE

LogNext ==
    \/ \E w \in Writes : Add(w) \/ \E v \in 1..Len(log) : Acknowledge(w, v)
    \/ Close

LogSpec == LogInit /\ [][LogNext]_logVars

=============================================================================
