------------------------------- MODULE MCLogs -------------------------------
\* Instances, under fairness, of the switches (LogControl) and of the two programs
\* that copy logs to the output.  As in MCTool a behaviour runs one of the machines
\* and the others rest.
EXTENDS LogControl, LogMerge, KmsgCopy

VARIABLE program    \* the machine that runs

logsVars == <<program, controlVars, mergeVars, kmsgVars>>

LogsInit ==
  /\ program \in {"control", "asuslogcat", "dumpkmsg"}
  /\ ControlInit /\ MergeInit /\ KmsgInit
  /\ program # "control" => prop = {} /\ space = "ok"
  /\ program # "asuslogcat" => ~options.nonblock

LogsNext ==
  \/ program = "control" /\ ControlNext /\ UNCHANGED <<program, mergeVars, kmsgVars>>
  \/ program = "asuslogcat" /\ MergeNext /\ UNCHANGED <<program, controlVars, kmsgVars>>
  \/ program = "dumpkmsg" /\ KmsgNext /\ UNCHANGED <<program, controlVars, mergeVars>>

\* ControlFairness and the fairness of MergeSpec.
LogsFairness ==
  /\ \A t \in Threads : WF_controlVars(program = "control" /\ ThreadStep(t))
  /\ WF_controlVars(program = "control" /\ (ClearLog \/ ClearDelete \/ ClearEnd))
  /\ WF_controlVars(program = "control" /\ (SwitchSaveDir \/ SwitchEnd))
  /\ SF_controlVars(program = "control" /\ RunMonitor)
  /\ WF_mergeVars(program = "asuslogcat" /\ ReadLogLines)
  /\ SF_mergeVars(program = "asuslogcat" /\ ReadEntry)

LogsSpec == LogsInit /\ [][LogsNext]_logsVars /\ LogsFairness

\* The type invariants of the machines.
LogsTypeOK == ControlTypeOK /\ MergeTypeOK /\ KmsgTypeOK

\* Values of the constants.
TcpdumpKey == <<"tcpdump">>
ModemTcpdump == <<"modem", "tcpdump">>
Options == {[nonblock |-> FALSE, tail |-> 0], [nonblock |-> TRUE, tail |-> 2]}
=============================================================================
