----------------------------- MODULE MCLogDump -----------------------------
\* Instances of LogDump: the categories are strings, in the orders the code
\* lists them, restricted to the categories of the instance.
EXTENDS LogDump

MainKernel == {"main", "kernel"}
MainOnly == {"main"}
None == {}

MainKernelOrder == <<"main", "kernel">>
KernelMainOrder == <<"kernel", "main">>
MainOrder == <<"main">>
EventOnly == {"event"}
EventOrder == <<"event">>

\* Two storage roots: internal storage and the micro-SD card.
OneRoot == {"data"}
TwoRoots == {"data", "sdcard"}
=============================================================================
