---------------------------- MODULE MCGolemTurns ----------------------------
EXTENDS GolemTurns
=============================================================================
