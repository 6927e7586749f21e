------------------------------ MODULE MCProxy ------------------------------
(* Values of Proxy's constants for TLC. *)
EXTENDS Proxy

MCScripts == [k \in Kinds |->
    IF k = "http"
    THEN {<<"CONNECT", "data1", "data2">>, <<"GET", "data1", "data2">>,
          <<"POST", "data1", "data2", "data2">>, <<"junk", "data1">>}
    ELSE {<<"v5", "methods", "connectName", "len", "name", "port", "data1", "data2">>,
          <<"v5none", "connectName", "len0", "port", "data1", "data2">>,
          <<"v5", "methods", "connect4", "addr", "port", "data1", "data2">>,
          <<"v5", "methods", "connect6", "addr", "port">>,
          <<"v4", "data1">>,
          <<"v5", "methods", "badcmd", "addr", "port", "data1", "data2">>,
          <<"v5", "methods", "badtype", "data1">>}]
=============================================================================
