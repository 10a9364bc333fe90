---------------------------- MODULE MCPrintAgent ----------------------------
\* A small instance of PrintAgent for TLC; constants are in MCPrintAgent.cfg.
EXTENDS PrintAgent
=============================================================================
