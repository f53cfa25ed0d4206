----------------------------- MODULE MCGeneration -----------------------------
EXTENDS GenerationRunner

MCPrompt == <<"a">>
=============================================================================
