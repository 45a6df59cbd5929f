----------------------------- MODULE MCSubagents -----------------------------
EXTENDS Subagents
=============================================================================
