-------------------------- MODULE MCTerminalOrder --------------------------
EXTENDS TerminalOrder

CONSTANTS m1, m2

MCMacs == {m1, m2}
MCDeletable == {m1}
MCNumbers == {0, 1, 2}
=============================================================================
