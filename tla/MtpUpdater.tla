----------------------------- MODULE MtpUpdater -----------------------------
(***************************************************************************)
(* The periodic media scan of DumpService.java: mUpdateMtpRunnable posts   *)
(* itself to the main looper's handler.  The user's switch and a change of *)
(* the save path restart it from the main thread; a DeleteTask stops it    *)
(* from its own thread and has it restarted from a third one.  The handler *)
(* calls and the tests before them are separate steps.                     *)
(***************************************************************************)
EXTENDS Integers, Sequences

VARIABLES
  autoMtp,      \* Settings.isAutoUpdateMtp
  needMtp,      \* isNeedUpdateMtp: the save path is not under /data
  posted,       \* how often mUpdateMtpRunnable waits in the handler's queue
  calls         \* the calls a thread has still to make

mtpVars == <<autoMtp, needMtp, posted, calls>>

MtpThreads == {"main", "task", "after"}
Free(t) == calls[t] = <<>>
Switches(t) == calls' = [calls EXCEPT ![t] = Tail(@)]

\* trigerUpdateMtp
Triger == <<"test", "remove", "post">>

MtpInit ==
  /\ autoMtp \in BOOLEAN /\ needMtp \in BOOLEAN
  /\ posted = 0
  /\ calls = [t \in MtpThreads |-> IF t = "main" THEN Triger ELSE <<>>]

\* action_auto_refresh_mtp
SwitchAutoMtp ==
  /\ Free("main")
  /\ autoMtp' = ~autoMtp
  /\ calls' = [calls EXCEPT !["main"] = IF autoMtp' THEN Triger ELSE <<"remove">>]
  /\ UNCHANGED <<needMtp, posted>>

\* handleLogPathChange, after the save path changed
PathChange ==
  /\ Free("main")
  /\ needMtp' = ~needMtp
  /\ calls' = [calls EXCEPT !["main"] = Triger]
  /\ UNCHANGED <<autoMtp, posted>>

\* Mutant: the runnable is posted again without a test.
UpdateMtpAlways ==
  /\ Free("main") /\ posted > 0
  /\ posted' = posted - 1
  /\ calls' = [calls EXCEPT !["main"] = <<"post">>]
  /\ UNCHANGED <<autoMtp, needMtp>>

\* mUpdateMtpRunnable, when its delay is over
UpdateMtp ==
  /\ Free("main") /\ posted > 0
  /\ posted' = posted - 1
  /\ calls' = [calls EXCEPT !["main"] = <<"test", "post">>]
  /\ UNCHANGED <<autoMtp, needMtp>>

\* clearLog stops the scan, deletes and starts a thread that resumes it.
ClearStops ==
  /\ Free("task")
  /\ calls' = [calls EXCEPT !["task"] = <<"remove", "delete">>]
  /\ UNCHANGED <<autoMtp, needMtp, posted>>

\* Bound: one such thread at a time.
ClearResumes ==
  /\ ~Free("task") /\ Head(calls["task"]) = "delete" /\ Free("after")
  /\ calls' = [calls EXCEPT !["task"] = <<>>, !["after"] = <<"testAuto">> \o Triger]
  /\ UNCHANGED <<autoMtp, needMtp, posted>>

\* Mutant: pending posts are not removed.
RemoveNone(t) ==
  /\ ~Free(t) /\ Head(calls[t]) = "remove"
  /\ Switches(t)
  /\ UNCHANGED <<autoMtp, needMtp, posted>>

RemoveCallbacks(t) ==
  /\ ~Free(t) /\ Head(calls[t]) = "remove"
  /\ posted' = 0
  /\ Switches(t)
  /\ UNCHANGED <<autoMtp, needMtp>>

Post(t) ==
  /\ ~Free(t) /\ Head(calls[t]) = "post"
  /\ posted' = posted + 1
  /\ Switches(t)
  /\ UNCHANGED <<autoMtp, needMtp>>

Test(t) ==
  /\ ~Free(t) /\ Head(calls[t]) \in {"test", "testAuto"}
  /\ calls' = [calls EXCEPT ![t] =
       IF autoMtp /\ (needMtp \/ Head(@) = "testAuto") THEN Tail(@) ELSE <<>>]
  /\ UNCHANGED <<autoMtp, needMtp, posted>>

MtpStep(t) == RemoveCallbacks(t) \/ Post(t) \/ Test(t)

MtpNext ==
  \/ SwitchAutoMtp \/ PathChange \/ UpdateMtp
  \/ ClearStops \/ ClearResumes
  \/ \E t \in MtpThreads : MtpStep(t)

\* Threads run, a delete ends, and the looper takes what was posted to it.
MtpFairness ==
  /\ \A t \in MtpThreads : WF_mtpVars(MtpStep(t))
  /\ WF_mtpVars(ClearResumes)
  /\ SF_mtpVars(UpdateMtp)

MtpSpec == MtpInit /\ [][MtpNext]_mtpVars /\ MtpFairness

(***************************************************************************)
(* Properties.                                                             *)
(***************************************************************************)
\* Type invariant.  However a DeleteTask stops and resumes the scan while the
\* runnable is running, at most one spare copy of it is posted.
MtpTypeOK ==
  /\ autoMtp \in BOOLEAN /\ needMtp \in BOOLEAN
  /\ posted \in 0..2
  /\ calls \in [MtpThreads -> Seq({"test", "testAuto", "remove", "post", "delete"})]

\* The scan follows the settings through every overlap of clears, posts and
\* switches: while it stays wanted no clear stops it for good, and once it stays
\* unwanted it ends, even when a post overlapped the switch.
MtpFollows ==
  /\ <>[](autoMtp /\ needMtp) => []<>(posted > 0)
  /\ <>[](~autoMtp \/ ~needMtp) => <>[](posted = 0)
=============================================================================
