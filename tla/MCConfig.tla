------------------------------ MODULE MCConfig ------------------------------
(***************************************************************************)
(* Lines of every kind, with keys and values below, at and above the       *)
(* length that can be stored.                                              *)
(***************************************************************************)
EXTENDS Config

MCJunk == <<"?", "?", "?", "?">>
MCKeys == {<< >>, <<"a">>, <<"a", "b">>, <<"a", "b", "b">>}
MCValues == {<< >>, <<"x">>, <<"y", "x", "x">>}
MCPairs == [kind : {"pair"}, key : MCKeys, value : MCValues]
MCLines == {line \in MCPairs : Len(line.key) + Len(line.value) > 0} \cup
           [kind : {"comment", "plain", "short"}, key : {<< >>},
            value : {<< >>}]
=============================================================================
