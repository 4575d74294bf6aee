------------------------------ MODULE MCScreen ------------------------------
EXTENDS Screen

MCModes == {[pe |-> FALSE, pg |-> FALSE], [pe |-> TRUE, pg |-> TRUE]}
MCCodes == {123, 1024}
MCInfos == {<<0, 16>>, <<305419896, 2147483647>>}
MCTraps == {[cs |-> 80, ip |-> 43981, err |-> NoCode],
            [cs |-> 80, ip |-> 305419896, err |-> 16]}
=============================================================================
