------------------------------- MODULE Downloads -------------------------------
(* Downloading one model in the desktop host: HTTP requests start and cancel it,  *)
(* one pool thread runs the jobs in order, and the file goes through a temporary   *)
(* file that survives failures, cancellation and restarts so that the next attempt *)
(* can resume it.  Contents are abstracted to what the check of the digest and the *)
(* size can tell apart.                                                            *)
EXTENDS Naturals

CONSTANTS
    Requests,          \* HTTP threads
    Sources,           \* number of download URLs of the model
    DownloadRetries,   \* attempts per source
    MaxJobs            \* bound on the jobs queued at a time

\* A model has a URL and every URL is tried.
ASSUME DownloadAssumption ==
    /\ Sources \in Nat \ {0} /\ DownloadRetries \in Nat \ {0}
    /\ MaxJobs \in Nat

VARIABLES
    http,              \* per request thread: what it is about to do
    jobs,              \* jobs submitted to download_executor and not finished
    download_worker,   \* the pool thread: its place in download() or in the activation
    source,            \* source_index, from 1
    attempt,
    state,             \* _downloads[model].state; "none" before the first download
    cancel_flag,       \* _cancel_flags[model]: "none", "clear" or "set"
    temp,              \* the .tmp file
    final,             \* the .gguf file
    backend            \* what the orchestrator's local backend was loaded from

downloadVars == <<http, jobs, download_worker, source, attempt, state, cancel_flag, temp,
                  final, backend>>

\* "part" is a proper prefix of the right file; "bad" anything else that is wrong.
Contents == {"none", "part", "good", "bad"}
Busy == {"pending", "downloading", "verifying"}
Ended == {"completed", "failed", "cancelled"}
JobPc == {"idle", "start", "request", "transfer", "verify", "install", "activate"}

DownloadInit ==
    /\ http = [r \in Requests |-> "idle"]
    /\ jobs = 0
    /\ download_worker = "idle"
    /\ source = 1
    /\ attempt = 1
    /\ state = "none"
    /\ cancel_flag = "none"
    /\ temp \in {"none", "part"}       \* of an earlier run of the program
    /\ final = "none"
    /\ backend = "none"

\* Both endpoints look at the progress first and act in a later step.
AskDownload(r) ==
    /\ http[r] = "idle"
    /\ state \notin Busy
    /\ http' = [http EXCEPT ![r] = "submit"]
    /\ UNCHANGED <<jobs, download_worker, source, attempt, state, cancel_flag, temp, final,
                   backend>>

SubmitDownload(r) ==
    /\ http[r] = "submit"
    /\ jobs < MaxJobs
    /\ http' = [http EXCEPT ![r] = "idle"]
    /\ jobs' = jobs + 1
    /\ UNCHANGED <<download_worker, source, attempt, state, cancel_flag, temp, final, backend>>

AskCancel(r) ==
    /\ http[r] = "idle"
    /\ state \notin Ended
    /\ state # "none" \/ jobs > 0
    /\ http' = [http EXCEPT ![r] = "cancel"]
    /\ UNCHANGED <<jobs, download_worker, source, attempt, state, cancel_flag, temp, final,
                   backend>>

Cancel(r) ==
    /\ http[r] = "cancel"
    /\ http' = [http EXCEPT ![r] = "idle"]
    /\ cancel_flag' = "set"
    /\ UNCHANGED <<jobs, download_worker, source, attempt, state, temp, final, backend>>

\* The end of download(), by whichever way: the flag is dropped.
EndJob(s) ==
    /\ state' = s
    /\ cancel_flag' = "none"
    /\ download_worker' = "idle"
    /\ jobs' = jobs - 1

StartJob ==
    /\ download_worker = "idle"
    /\ jobs > 0
    /\ cancel_flag' = IF cancel_flag = "none" THEN "clear" ELSE cancel_flag
    /\ download_worker' = "start"
    /\ source' = 1
    /\ attempt' = 1
    /\ UNCHANGED <<http, jobs, state, temp, final, backend>>

\* The disk is too full, or its space cannot be read: this is outside the block that
\* drops the flag.
NoSpace ==
    /\ download_worker = "start"
    /\ state' = "failed"
    /\ download_worker' = "idle"
    /\ jobs' = jobs - 1
    /\ UNCHANGED <<http, source, attempt, cancel_flag, temp, final, backend>>

BeginDownload ==
    /\ download_worker = "start"
    /\ IF cancel_flag = "set"
       THEN EndJob("cancelled")
       ELSE /\ state' = "pending"
            /\ download_worker' = "request"
            /\ UNCHANGED <<jobs, cancel_flag>>
    /\ UNCHANGED <<http, source, attempt, temp, final, backend>>

\* A source answers 206 to a resumed file and the rest is appended, or 200 and the
\* file is written from the start.  Another source may append what does not fit.
Response(resumed) ==
    IF resumed THEN temp' = temp ELSE temp' = "part"

OpenTemp(resumed) ==
    /\ download_worker = "request"
    /\ resumed => temp # "none"
    /\ Response(resumed)
    /\ state' = "downloading"
    /\ download_worker' = "transfer"
    /\ UNCHANGED <<http, jobs, source, attempt, cancel_flag, final, backend>>

\* The stream ends: what it left depends on what was there.
Appended(t) == IF t = "part" THEN {"part", "good", "bad"} ELSE {"bad"}

TransferEnds ==
    /\ download_worker = "transfer"
    /\ temp' \in Appended(temp)
    /\ state' = "verifying"
    /\ download_worker' = "verify"
    /\ UNCHANGED <<http, jobs, source, attempt, cancel_flag, final, backend>>

TransferCancelled ==
    /\ download_worker = "transfer"
    /\ cancel_flag = "set"
    /\ temp' \in {temp} \cup Appended(temp)
    /\ EndJob("cancelled")
    /\ UNCHANGED <<http, source, attempt, final, backend>>

\* Mutant: a file of the right size is taken for the right file.
SizeMatches == temp \in {"good", "bad"}

DigestMatches == temp = "good"

\* Mutant: the attempts are not counted against the limit.
NextAttemptUncounted(t) ==
    /\ attempt' = attempt + 1
    /\ temp' = t
    /\ download_worker' = "request"
    /\ UNCHANGED <<source, jobs, state, cancel_flag>>

\* After a failed attempt: again, the next source with the file deleted, or the end.
NextAttempt(t) ==
    \/ /\ attempt < DownloadRetries
       /\ attempt' = attempt + 1
       /\ temp' = t
       /\ download_worker' = "request"
       /\ UNCHANGED <<source, jobs, state, cancel_flag>>
    \/ /\ attempt = DownloadRetries
       /\ source < Sources
       /\ source' = source + 1
       /\ attempt' = 1
       /\ temp' = "none"
       /\ download_worker' = "request"
       /\ UNCHANGED <<jobs, state, cancel_flag>>
    \/ /\ attempt = DownloadRetries
       /\ source = Sources
       /\ temp' = "none"
       /\ EndJob("failed")
       /\ UNCHANGED <<source, attempt>>

\* The connection, the server's status or the disk: the temporary file stays.
AttemptFails ==
    /\ download_worker \in {"request", "transfer"}
    /\ \E t \in {temp} \cup (IF download_worker = "transfer" THEN Appended(temp) ELSE {}) : NextAttempt(t)
    /\ UNCHANGED <<http, final, backend>>

Verify ==
    /\ download_worker = "verify"
    /\ IF DigestMatches
       THEN /\ download_worker' = "install"
            /\ UNCHANGED <<source, attempt, jobs, state, cancel_flag, temp>>
       ELSE NextAttempt("none")
    /\ UNCHANGED <<http, final, backend>>

\* os.replace, the completed state and the event; an old file may be in use and
\* refuse to be replaced.
Install ==
    /\ download_worker = "install"
    /\ final' = temp
    /\ temp' = "none"
    /\ state' = "completed"
    /\ cancel_flag' = "none"
    /\ download_worker' = "activate"
    /\ UNCHANGED <<http, jobs, source, attempt, backend>>

InstallFails ==
    /\ download_worker = "install"
    /\ NextAttempt(temp)
    /\ UNCHANGED <<http, final, backend>>

\* run_model_download: the backend is loaded from the file, or the failure is noted
\* and the old backend stays.
Activate ==
    /\ download_worker = "activate"
    /\ backend' \in {backend, final}
    /\ download_worker' = "idle"
    /\ jobs' = jobs - 1
    /\ UNCHANGED <<http, source, attempt, state, cancel_flag, temp, final>>

\* The program ends anywhere; cleanup_stale_temp_files may delete an old file.
RestartHost ==
    /\ http' = [r \in Requests |-> "idle"]
    /\ jobs' = 0
    /\ download_worker' = "idle"
    /\ source' = 1
    /\ attempt' = 1
    /\ state' = "none"
    /\ cancel_flag' = "none"
    /\ temp' \in {temp, "none"}
    /\ backend' = final
    /\ UNCHANGED final

DownloadNext ==
    \/ \E r \in Requests : AskDownload(r) \/ SubmitDownload(r) \/ AskCancel(r) \/ Cancel(r)
    \/ StartJob \/ NoSpace \/ BeginDownload
    \/ \E resumed \in BOOLEAN : OpenTemp(resumed)
    \/ TransferEnds \/ TransferCancelled \/ AttemptFails
    \/ Verify \/ Install \/ InstallFails \/ Activate
    \/ RestartHost

DownloadSpec == DownloadInit /\ [][DownloadNext]_downloadVars

DownloadTypeOK ==
    /\ http \in [Requests -> {"idle", "submit", "cancel"}]
    /\ jobs \in 0..MaxJobs
    /\ download_worker \in JobPc
    /\ source \in 1..Sources
    /\ attempt \in 1..DownloadRetries
    /\ state \in Busy \cup Ended \cup {"none"}
    /\ cancel_flag \in {"none", "clear", "set"}
    /\ temp \in Contents
    /\ final \in Contents
    /\ backend \in Contents

\* Whatever is resumed, from whichever source, and wherever the program stopped:
\* the file under the model's name, and the one a backend runs on, has passed the
\* digest check.
InstalledIsVerified == final \in {"none", "good"} /\ backend \in {"none", "good"}
=============================================================================
