--------------------------- MODULE MCModemSession ---------------------------
\* Instances of ModemSession: shorter command lists than the code's, whose
\* I2S_CMD_PCM has 7 commands with the first two and the last delayed.
EXTENDS ModemSession

OneDelayed == <<TRUE>>
DelayedThenNot == <<TRUE, FALSE>>
TwoDelayed == <<TRUE, TRUE>>
=============================================================================
