----------------------------- MODULE MCStartup -----------------------------
(* Startup with constants small enough for TLC.                            *)
EXTENDS Startup

MCMonitorLists == {<<>>, <<"null", "virtual">>, <<"virtual", "null", "virtual">>,
                   <<"region", "region">>, <<"plain dict">>, <<"null", "plain dict">>, <<"short region">>,
                   <<"unnumbered region", "word">>, <<"no list">>, <<"null", "null", "null", "null">>}
=============================================================================
