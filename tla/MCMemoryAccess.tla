--------------------------- MODULE MCMemoryAccess ---------------------------
EXTENDS MemoryAccess

Opt(mso, atam, atwm, memrw) == [mso |-> mso, atam |-> atam, atwm |-> atwm, memrw |-> memrw]

\* The defaults, and the settings with the memory file and with ptrace.
Default   == Opt(2, FALSE, TRUE, FALSE)
MCOptions == {Default, Opt(0, FALSE, FALSE, TRUE), Opt(1, TRUE, FALSE, FALSE)}

OnlyDefault == {Default}
=============================================================================
