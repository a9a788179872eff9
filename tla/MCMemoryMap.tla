----------------------------- MODULE MCMemoryMap -----------------------------
EXTENDS MemoryMap

Content(p, present, dirty) == [perms |-> p, present |-> present, dirty |-> dirty]

\* A private mapping whose pages are present and dirty or neither, and a shared
\* one.
MCContents == {Content({"w"}, TRUE, TRUE), Content({"w"}, FALSE, FALSE),
               Content({"x", "s"}, TRUE, FALSE)}

MCFlags == {{}, {"VQE_PAGEDONLY"}, {"VQE_DIRTYONLY", "VQE_NOSHARED"}}
=============================================================================
