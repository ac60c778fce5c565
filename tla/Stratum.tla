------------------------------ MODULE Stratum ------------------------------
(***************************************************************************)
(* The data that gpu-proxy takes from Stratum messages (stratum.hpp), cut  *)
(* down to what its handlers tell apart.                                   *)
(***************************************************************************)

CONSTANTS
  Workers, \* the ids workers give for themselves
  Jobs,    \* the job contents pools send
  NoJob    \* a field of a Job no pool has set

ASSUME JobsAssumption == NoJob \notin Jobs

\* Each field of the Job records the pool message it was copied from; blob is
\* copied together with job_id.
JobField == Jobs \cup {NoJob}
Job      == [job_id : JobField, target : JobField, height : JobField]
FullJob(j) == [job_id |-> j, target |-> j, height |-> j]

\* The shapes of a reply: result missing, null, a scalar or empty; an object
\* with a job (complete; without target; without height; with a height that is
\* no number; without job_id or blob); an object with a status (OK or another).
JobReply == {"job", "job_no_target", "job_no_height", "job_bad_height", "job_no_id"}
Reply    == JobReply \cup {"scalar", "status_ok", "status_bad"}

=============================================================================
