------------------------------ MODULE RowArray ------------------------------
(***************************************************************************)
(* What a virtual array promises its callers (request_virt_sarray,         *)
(* request_virt_barray and the access methods of jmemmgr.c): an array of   *)
(* Rows rows, filled from the front, of which a caller holds the rows of   *)
(* its last access and no others.  Where the rows live, in memory or in a  *)
(* temporary file, is VirtualArray's; here a row is simply its content.    *)
(***************************************************************************)
EXTENDS Integers

CONSTANTS Rows,        \* rows_in_array
          MaxAccess,   \* maxaccess: the most rows of one access
          Values,      \* the contents a row can have
          Zero         \* the content of a row of zeroes

VARIABLES status,      \* "none", "live", or the error that ended its use
          preZero,     \* pre_zero: rows not yet written read as zeroes
          rows,        \* the content of every row
          defined,     \* rows 0 .. defined-1 have been given to a writer
          granted,     \* the rows of the last access, the caller's to use
          view,        \* what the caller finds in them
          writable     \* the last access asked to write

vars == <<status, preZero, rows, defined, granted, view, writable>>

Index == 0 .. (Rows - 1)
Errors == {"bad_access", "file_error"}

Fresh ==
    /\ rows' = [r \in Index |-> Zero]
    /\ defined' = 0
    /\ granted' = {}
    /\ view' = [r \in {} |-> Zero]
    /\ writable' = FALSE

Init ==
    /\ status = "none"
    /\ preZero = FALSE
    /\ rows = [r \in Index |-> Zero]
    /\ defined = 0
    /\ granted = {}
    /\ view = [r \in {} |-> Zero]
    /\ writable = FALSE

Request ==
    /\ status = "none"
    /\ status' = "live"
    /\ preZero' \in BOOLEAN
    /\ Fresh

(* An access beyond the array or of too many rows, a writer that skips     *)
(* rows, a reader of rows that have no content.                            *)
Misused(start, num, write) ==
    \/ start + num > Rows
    \/ num > MaxAccess
    \/ /\ defined < start + num
       /\ IF write THEN defined < start ELSE ~preZero

(* The rows a writer is given for the first time are zeroes, or hold       *)
(* anything when the array is not pre-zeroed; no other row changes.        *)
Access(start, num, write) ==
    /\ status = "live"
    /\ ~Misused(start, num, write)
    /\ granted' = start .. (start + num - 1)
    /\ writable' = write
    /\ UNCHANGED <<status, preZero>>
    /\ defined' = IF write /\ defined < start + num THEN start + num ELSE defined
    /\ rows' \in [Index -> Values]
    /\ \A r \in Index : preZero \/ r < defined \/ r >= defined' => rows'[r] = rows[r]
    /\ view' = [r \in start .. (start + num - 1) |-> rows'[r]]

Refuse(start, num, write) ==
    /\ status = "live"
    /\ Misused(start, num, write)
    /\ status' = "bad_access"
    /\ granted' = {}
    /\ view' = [r \in {} |-> Zero]
    /\ UNCHANGED <<preZero, rows, defined, writable>>

FileFails ==
    /\ status = "live"
    /\ status' = "file_error"
    /\ granted' = {}
    /\ view' = [r \in {} |-> Zero]
    /\ UNCHANGED <<preZero, rows, defined, writable>>

Write(r, v) ==
    /\ status = "live"
    /\ writable
    /\ r \in granted
    /\ UNCHANGED <<status, preZero, defined, granted, writable>>
    /\ view' = [view EXCEPT ![r] = v]
    /\ rows' = [rows EXCEPT ![r] = v]

Free ==
    /\ status # "none"
    /\ status' = "none"
    /\ preZero' = FALSE
    /\ Fresh

Next ==
    \/ Request
    \/ \E start \in 0 .. Rows, num \in 1 .. (MaxAccess + 1), write \in BOOLEAN :
          Access(start, num, write) \/ Refuse(start, num, write)
    \/ FileFails
    \/ \E r \in Index, v \in Values : Write(r, v)
    \/ Free

Spec == Init /\ [][Next]_vars
=============================================================================
