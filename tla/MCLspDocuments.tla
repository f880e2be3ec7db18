--------------------------- MODULE MCLspDocuments ---------------------------
EXTENDS LspDocuments
=============================================================================
