------------------------------- MODULE MCTool -------------------------------
\* Instances of the log tool's state machines that share no variable.  A
\* behaviour runs one of them, chosen at the start; the others rest in an
\* initial state in which nothing is wanted, so that no promise of theirs is
\* due.  Fairness is that of the machine that runs.
EXTENDS DumpLogger, MtpUpdater, LogControl, BootMount, LogRotation

CONSTANT Parts    \* the machines of the instance

VARIABLE part     \* the machine that runs

toolVars == <<part, loggerVars, mtpVars, controlVars, bootVars, vars>>

ToolInit ==
  /\ part \in Parts
  /\ LoggerInit /\ MtpInit /\ ControlInit /\ BootInit /\ Init
  /\ part # "logger" => ~category.closesPrevious /\ ~category.root
  /\ part # "mtp" => ~autoMtp /\ ~needMtp
  /\ part # "control" => prop = {} /\ space = "ok"
  /\ part # "boot" => ~card /\ \A c \in LogCats : ~support[c]
  /\ part # "rotation" => \A n \in RotateNums : rotateNum <= n

\* A step of one machine.
InLogger(A)   == part = "logger" /\ A /\ UNCHANGED <<part, mtpVars, controlVars, bootVars, vars>>
InMtp(A)      == part = "mtp" /\ A /\ UNCHANGED <<part, loggerVars, controlVars, bootVars, vars>>
InControl(A)  == part = "control" /\ A /\ UNCHANGED <<part, loggerVars, mtpVars, bootVars, vars>>
InBoot(A)     == part = "boot" /\ A /\ UNCHANGED <<part, loggerVars, mtpVars, controlVars, vars>>
InRotation(A) == part = "rotation" /\ A /\ UNCHANGED <<part, loggerVars, mtpVars, controlVars, bootVars>>

ToolNext ==
  \/ InLogger(LoggerNext) \/ InMtp(MtpNext) \/ InControl(ControlNext)
  \/ InBoot(BootNext) \/ InRotation(Next)

ToolSpec == ToolInit /\ [][ToolNext]_toolVars

\* LoggerFairness, MtpFairness and BootFairness; LogControl's is in MCLogs.
ToolFairness ==
  /\ \A c \in Callers : WF_loggerVars(part = "logger" /\ Caller(c))
  /\ \A t \in Ids : WF_loggerVars(part = "logger" /\ Run(t))
  /\ \A t \in MtpThreads : WF_mtpVars(part = "mtp" /\ MtpStep(t))
  /\ WF_mtpVars(part = "mtp" /\ ClearResumes)
  /\ SF_mtpVars(part = "mtp" /\ UpdateMtp)
  /\ WF_bootVars(part = "boot" /\ WaitMountRun)
  /\ WF_bootVars(part = "boot" /\ DetectProp)
  /\ WF_bootVars(part = "boot" /\ World /\ late' # late)

ToolFairSpec == ToolSpec /\ ToolFairness

\* The type invariants of the machines but LogControl's, which MCLogs has.
ToolTypeOK == LoggerTypeOK /\ MtpTypeOK /\ BootTypeOK /\ TypeOK

\* Values of the constants.
MainKey == <<"main">>
TcpdumpKey == <<"tcpdump">>
ModemTcpdump == <<"modem", "tcpdump">>
MainCat == {"main"}
MainKernel == {"main", "kernel"}
MainKernelOrder == <<"main", "kernel">>
=============================================================================
