----------------------------- MODULE SectorStore -----------------------------
(***************************************************************************)
(* What the disk driver promises the file system: one request at a time,   *)
(* served once, and answered with success only after it was served. A      *)
(* request may fail whenever it likes; then nobody asks again, and it may  *)
(* still be served.                                                        *)
(***************************************************************************)
CONSTANTS Sectors, Values, NoRequest

VARIABLES
    store,    \* the value of every sector
    buf,      \* the buffer of the caller
    req,      \* the request, [write, sector], or NoRequest
    served,   \* whether its data has been moved
    phase     \* "idle", "asked" or "stopped"

Requests == [write : BOOLEAN, sector : Sectors]

Init ==
    /\ store \in [Sectors -> Values]
    /\ buf \in Values
    /\ req = NoRequest
    /\ served = FALSE
    /\ phase = "idle"

Ask(r, v) ==
    /\ phase = "idle"
    /\ phase' = "asked"
    /\ req' = r
    /\ buf' = IF r.write THEN v ELSE buf
    /\ UNCHANGED <<store, served>>

Serve ==
    /\ req # NoRequest /\ ~served
    /\ served' = TRUE
    /\ \/ req.write /\ store' = [store EXCEPT ![req.sector] = buf] /\ buf' = buf
       \/ ~req.write /\ buf' = store[req.sector] /\ store' = store
    /\ UNCHANGED <<req, phase>>

Succeed ==
    /\ phase = "asked" /\ served
    /\ phase' = "idle"
    /\ req' = NoRequest
    /\ served' = FALSE
    /\ UNCHANGED <<store, buf>>

Fail ==
    /\ phase = "asked"
    /\ phase' = "stopped"
    /\ UNCHANGED <<store, buf, req, served>>

Next == (\E r \in Requests, v \in Values : Ask(r, v)) \/ Serve \/ Succeed \/ Fail

Spec == Init /\ [][Next]_<<store, buf, req, served, phase>>
=============================================================================
