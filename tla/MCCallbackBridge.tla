--------------------------- MODULE MCCallbackBridge ---------------------------
(* A query with a scan and a function; the scan's provider makes a query,  *)
(* which looks a column up.  Two permits: both may be taken by callbacks.  *)
EXTENDS CallbackBridge

CONSTANTS outer, nested, scan, udf, lookup

MCQuery == {outer, nested}
MCTask == {scan, udf, lookup}
MCQueryOf == [t \in MCTask |-> IF t = lookup THEN nested ELSE outer]
MCKind == [t \in MCTask |-> CASE t = scan -> "scan" [] t = udf -> "udf" [] OTHER -> "lookup"]
MCNested == {nested}
MCHostOf == [q \in MCNested |-> scan]

\* One query with a scan and a column lookup.
MCBranchQuery == {outer}
MCBranchTask == {scan, lookup}
MCBranchQueryOf == [t \in MCBranchTask |-> outer]
MCBranchKind == [t \in MCBranchTask |-> IF t = scan THEN "scan" ELSE "lookup"]
MCBranchHostOf == [q \in {} |-> scan]
=============================================================================
