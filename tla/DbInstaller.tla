----------------------------- MODULE DbInstaller -----------------------------
(***************************************************************************)
(* What downloading a database promises, without files, threads or names:  *)
(* one database is current or there is none; a download replaces it only   *)
(* once the new version is complete, a failed download leaves it alone,    *)
(* success is announced only when the new version is in place, and no      *)
(* download brings back a version older than one that was installed.       *)
(*                                                                         *)
(* The promise is honest about the one gap in MapDatabaseHelper.downloadDB:*)
(* the old database is deleted (Withdraw) before the new one is renamed    *)
(* (Install), so a process that dies in between has neither.               *)
(***************************************************************************)
EXTENDS Integers

CONSTANTS MaxVersion,  \* versions are 1 .. MaxVersion
          NoDatabase   \* not a version: the application has no usable database

VARIABLES current,  \* the version a reader would be served, or NoDatabase
          newest,   \* the newest version ever installed, 0 before the first
          phase     \* what the download announces, see Phases

vars == <<current, newest, phase>>

Phases == {"idle", "loading", "replacing", "loaded", "failed"}

Settled == phase \in {"idle", "loaded", "failed"}

Init ==
  /\ current = NoDatabase
  /\ newest = 0
  /\ phase = "idle"

Begin ==
  /\ Settled
  /\ phase' = "loading"
  /\ UNCHANGED <<current, newest>>

Fail ==
  /\ phase = "loading"
  /\ phase' = "failed"
  /\ UNCHANGED <<current, newest>>

Withdraw ==
  /\ phase = "loading"
  /\ phase' = "replacing"
  /\ current' = NoDatabase
  /\ UNCHANGED newest

Install ==
  /\ phase = "replacing"
  /\ current = NoDatabase
  /\ \E v \in 1 .. MaxVersion :
       /\ v >= newest
       /\ current' = v
       /\ newest' = v
  /\ UNCHANGED phase

Succeed ==
  /\ phase = "replacing"
  /\ current # NoDatabase
  /\ phase' = "loaded"
  /\ UNCHANGED <<current, newest>>

Clear ==
  /\ Settled
  /\ current' = NoDatabase
  /\ UNCHANGED <<newest, phase>>

Crash ==
  /\ phase' = "idle"
  /\ UNCHANGED <<current, newest>>

Next == Begin \/ Fail \/ Withdraw \/ Install \/ Succeed \/ Clear \/ Crash

Spec == Init /\ [][Next]_vars
=============================================================================
