----------------------- MODULE MCTerminalConnections -----------------------
EXTENDS TerminalConnections

CONSTANTS m1, m2, t1, t2

MCMacs == {m1, m2}
MCOneMac == {m1}
MCTwoTokens == {t1, t2}
=============================================================================
