----------------------------- MODULE MCAppClose -----------------------------
\* Small instances of AppClose.
EXTENDS AppClose
=============================================================================
