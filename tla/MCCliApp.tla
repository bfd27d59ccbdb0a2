------------------------------ MODULE MCCliApp ------------------------------
EXTENDS CliApp

CONSTANTS h1, h2, s1, t1, t2
MCServerLists == {<<>>, <<s1>>}
MCTagLists == {<<t1, t2>>}
=============================================================================
